---------------------------- MODULE Spec2Model ----------------------------
(***************************************************************************)
(* Crop classification web application: the stubbed classifier (predict,   *)
(* extractFeatures, classify), the classify and export request handlers,   *)
(* the export formatters and the React session state of App.               *)
(*                                                                         *)
(* Numbers.  JavaScript numbers are modelled in fixed point:               *)
(*   - "micro" values are integers counting 1e-6 (raw confidences, raw     *)
(*     vegetation indices, probabilities);                                 *)
(*   - "milli" values are integers counting 1e-3 (everything that went     *)
(*     through toFixed(3), coordinates, areas);                            *)
(*   - a draw of Math.random() is an integer r in 0..999 standing for      *)
(*     r/1000, so that every product the code forms is exact in micro.     *)
(* Text is a sequence of tokens: one-character strings for the characters  *)
(* that matter to a format (digits, "-", ".", ",", the double quote, the   *)
(* newline) and longer strings for runs of characters that hold none of    *)
(* them (labels, timestamps).                                              *)
(***************************************************************************)
EXTENDS Integers, Sequences, FiniteSets, TLC

VARIABLES
    tierIn,       \* [confidence] handed to the tier scan (micro), or None
    tierOut,      \* the tier the scan returned, or None
    features,     \* feature vector handed to predict, or None
    outcome,      \* what predict returned for it, or None
    classifyReq,  \* request served by the classify handler, or None
    classifyRes,  \* the writes that handler made on res
    exportReq,    \* request served by the export handler, or None
    exportRes,    \* the writes that handler made on res
    selectedFile,        \* App state: the file chosen, or None
    uploadResult,        \* App state: the answer of the upload, or None
    isProcessing,        \* App state
    shownResult,         \* App state `results`: the last formatted result, or None
    allResults,          \* App state: the results of the session, in order
    error,               \* App state: [message], or None for null
    processingProgress,  \* App state: 0..100
    activeTab,           \* App state
    classifying,         \* the handleClassify that awaits its answer: [interval], or None
    intervals,           \* ids of the progress intervals still set
    errorTimers,         \* the setTimeout(() => setError(null)) not yet fired, oldest first: ticks left to each
    errorAge,            \* ticks the error on display has been shown (0 with no error; stops at ErrorDelay)
    started,             \* number of handleClassify calls that went past the guard
    lastExport,          \* the last handleExport: [format, results, writes, downloaded], or None
    uploadReq,       \* request served by the upload handler, or None
    uploadRes,       \* the writes that handler made on res
    uploadDirFiles,  \* names of the files the upload left in uploadDir
    middlewareReq,   \* request that went through validateFileMiddleware, or None
    middlewareRes,   \* [writes, next]: its writes on res, and whether it called next
    extracted,       \* [draws, features] of an extractFeatures call, or None
    classified,      \* [exists, draws, result] of a classify call, or None
    rateLimiter,     \* security.rateLimiter: key -> the instants recorded for it
    dateNow,         \* the clock Date.now() reads
    rateLog,         \* the checkRateLimit calls so far: [key, now, answer]
    sanitized,       \* [by, input, output] of a sanitizer call, or None
    cache,           \* MemoryCache.cache: key -> [value, timestamp, ttl]
    timers,          \* MemoryCache.timers: key -> id of its setTimeout
    timeouts,        \* the setTimeout callbacks not yet run or cleared: [id, key, due]
    cacheLog,        \* the last call on the MemoryCache and, per key, the most recent set
    retry            \* the withRetry call in progress or ended, or None

tierVars     == <<tierIn, tierOut>>
predictVars  == <<features, outcome>>
classifyVars == <<classifyReq, classifyRes>>
exportVars   == <<exportReq, exportRes>>
serverVars == <<tierIn, tierOut, features, outcome, classifyReq, classifyRes,
                exportReq, exportRes>>
appVars == <<selectedFile, uploadResult, isProcessing, shownResult, allResults,
             error, processingProgress, activeTab, classifying, intervals,
             errorTimers, errorAge, started, lastExport>>
uploadVars     == <<uploadReq, uploadRes, uploadDirFiles>>
middlewareVars == <<middlewareReq, middlewareRes>>
featureVars    == <<extracted, classified>>
rateVars       == <<rateLimiter, dateNow, rateLog>>
sanitizeVars   == <<sanitized>>
cacheVars      == <<cache, timers, timeouts, cacheLog>>
retryVars      == <<retry>>
utilityVars    == <<sanitized, cache, timers, timeouts, cacheLog, retry>>
moduleVars == <<uploadReq, uploadRes, uploadDirFiles, middlewareReq,
                middlewareRes, extracted, classified, rateLimiter, dateNow, rateLog,
                sanitized, cache, timers, timeouts, cacheLog, retry>>
vars == <<tierIn, tierOut, features, outcome, classifyReq, classifyRes,
          exportReq, exportRes, selectedFile, uploadResult, isProcessing,
          shownResult, allResults, error, processingProgress, activeTab,
          classifying, intervals, errorTimers, errorAge, started, lastExport,
          uploadReq, uploadRes, uploadDirFiles, middlewareReq, middlewareRes,
          extracted, classified, rateLimiter, dateNow, rateLog,
          sanitized, cache, timers, timeouts, cacheLog, retry>>

\* the value of a variable that holds nothing yet (every such variable holds
\* records, which TLC compares with this one)
None == [none |-> TRUE]

Min(S) == CHOOSE x \in S : \A y \in S : x <= y

-----------------------------------------------------------------------------
(* Fixed point *)

\* 1.0 in micro units
Micro == 1000 * 1000

\* toFixed(3) followed by parseFloat: a non-negative micro value rounded to
\* the nearest milli
ToFixed3(x) == (x + 500) \div 1000

\* a milli value seen as micro (a JavaScript number is the same number)
MilliToMicro(m) == m * 1000

-----------------------------------------------------------------------------
(* CropClassificationModel *)

PalmierAHuile == "Palmier a huile"
Cacao == "Cacao"
Foret == "Foret"

classes == <<PalmierAHuile, Cacao, Foret>>

confidenceLevels ==
    << [level |-> 5, threshold |-> 800000, label |-> "Tres haute confiance",
        action |-> "Utilisation automatique recommandee"],
       [level |-> 4, threshold |-> 600000, label |-> "Confiance elevee",
        action |-> "Cartographie automatique avec verifications"],
       [level |-> 3, threshold |-> 400000, label |-> "Confiance moyenne",
        action |-> "Verification visuelle recommandee"],
       [level |-> 2, threshold |-> 200000, label |-> "Faible confiance",
        action |-> "Verification sur le terrain necessaire"],
       [level |-> 1, threshold |-> 0, label |-> "Tres faible confiance",
        action |-> "Analyse approfondie requise"] >>

\* the test of the find callback with > in place of >=
LevelMatchesStrict(confidence, level) == confidence > level.threshold

\* level => confidence >= level.threshold
LevelMatches(confidence, level) == confidence >= level.threshold

\* the scan over a table listed lowest threshold first: find returns the last
\* row that matches instead of the first
FindConfidenceLevelAscending(confidence) ==
    LET hits == { i \in 1..Len(confidenceLevels) :
                    LevelMatches(confidence, confidenceLevels[i]) }
    IN  IF hits # {} THEN confidenceLevels[CHOOSE i \in hits : \A j \in hits : j <= i]
        ELSE confidenceLevels[Len(confidenceLevels)]

\* confidenceLevels.find(...) || confidenceLevels[confidenceLevels.length - 1]
FindConfidenceLevel(confidence) ==
    LET hits == { i \in 1..Len(confidenceLevels) :
                    LevelMatches(confidence, confidenceLevels[i]) }
    IN  IF hits # {} THEN confidenceLevels[Min(hits)]
        ELSE confidenceLevels[Len(confidenceLevels)]

\* the dense-vegetation test with >= in place of >
IsForestLoose(f) == f.evi >= 900

\* features.evi > 0.9
IsForest(f) == f.evi > 900

\* the branches with the sparse-vegetation draw scaled by 0.4 in place of 0.3
PredictBranchWideSparse(f, r) ==
    IF f.ndvi > 800
    THEN IF IsForest(f)
         THEN [predictedClass |-> Foret, confidence |-> 850000 + r * 100]
         ELSE [predictedClass |-> PalmierAHuile, confidence |-> 750000 + r * 150]
    ELSE IF f.ndvi > 600
    THEN IF f.savi > 700
         THEN [predictedClass |-> PalmierAHuile, confidence |-> 700000 + r * 200]
         ELSE [predictedClass |-> Cacao, confidence |-> 650000 + r * 250]
    ELSE [predictedClass |-> Cacao, confidence |-> 450000 + r * 400]

\* the branch of predict: the label and the raw confidence (micro) for the
\* draw r of Math.random()
PredictBranch(f, r) ==
    IF f.ndvi > 800
    THEN IF IsForest(f)
         THEN [predictedClass |-> Foret, confidence |-> 850000 + r * 100]
         ELSE [predictedClass |-> PalmierAHuile, confidence |-> 750000 + r * 150]
    ELSE IF f.ndvi > 600
    THEN IF f.savi > 700
         THEN [predictedClass |-> PalmierAHuile, confidence |-> 700000 + r * 200]
         ELSE [predictedClass |-> Cacao, confidence |-> 650000 + r * 250]
    ELSE [predictedClass |-> Cacao, confidence |-> 450000 + r * 300]

\* Math.random() * (1 - confidence) for the draw p
OtherProbability(confidence, p) == (p * (Micro - confidence)) \div 1000

\* the probabilities object: the predicted class gets the raw confidence,
\* the two others a draw each, in the order the object literal lists them
Probabilities(predictedClass, confidence, p1, p2) ==
    LET others == SelectSeq(classes, LAMBDA c : c # predictedClass)
    IN  [c \in {PalmierAHuile, Cacao, Foret} |->
            IF c = predictedClass THEN confidence
            ELSE IF c = others[1] THEN OtherProbability(confidence, p1)
            ELSE OtherProbability(confidence, p2)]

\* predict(features), with the three draws it makes
predict(f, r, p1, p2) ==
    LET b == PredictBranch(f, r)
        confidenceLevel == FindConfidenceLevel(b.confidence)
    IN  [predicted_class    |-> b.predictedClass,
         confidence         |-> ToFixed3(b.confidence),
         confidence_level   |-> confidenceLevel.level,
         confidence_label   |-> confidenceLevel.label,
         recommended_action |-> confidenceLevel.action,
         probabilities      |-> Probabilities(b.predictedClass, b.confidence, p1, p2)]

\* an NDVI drawn from [0.5, 0.95) in place of [0.65, 0.95)
calculateNDVIFromHalf(r) == 500000 + r * 450

\* calculateNDVI(): 0.65 + Math.random() * 0.3, in micro, for the draw r
calculateNDVI(r) == 650000 + r * 300

\* extractFeatures(imagePath) for the draws d it makes: the three indices go
\* through toFixed(3) (milli), the other fields stay as computed (micro).
\* evi and savi are computed from the unrounded ndvi.
extractFeatures(d) ==
    LET ndvi == calculateNDVI(d.ndvi)
    IN  [ndvi     |-> ToFixed3(ndvi),
         evi      |-> ToFixed3((ndvi * 12) \div 10),
         savi     |-> ToFixed3((ndvi * 9) \div 10),
         mean_red |-> d.mean_red * 300 + 100000,
         mean_nir |-> d.mean_nir * 400 + 600000,
         std_red  |-> d.std_red * 50 + 20000,
         std_nir  |-> d.std_nir * 80 + 30000,
         area_ha  |-> d.area_ha * 5000 + 500000]

\* classify(imagePath): exists is what fs.existsSync(imagePath) answers, d
\* the draws and clock the instant of new Date()
classify(exists, d, clock) ==
    IF ~ exists
    THEN [success |-> FALSE, error |-> "Fichier image non trouve"]
    ELSE LET f == extractFeatures(d.features)
         IN  [success    |-> TRUE,
              features   |-> f,
              prediction |-> predict(f, d.confidence, d.p1, d.p2),
              metadata   |-> [model_version   |-> "1.0.0",
                              processing_time |-> d.processing_time * 2000 + Micro,
                              timestamp       |-> clock]]

-----------------------------------------------------------------------------
(* Response objects: the calls a handler makes on res, in order *)

\* res.status(status).json(body)
Json(status, body) == [op |-> "json", status |-> status, body |-> body]

\* res.status(status).send(body)
Send(status, body) == [op |-> "send", status |-> status, body |-> body]

\* res.setHeader(name, value)
SetHeader(name, value) == [op |-> "setHeader", name |-> name, value |-> value]

\* a JavaScript object with one more property
WithProperty(obj, name, value) ==
    [k \in DOMAIN obj \cup {name} |-> IF k = name THEN value ELSE obj[k]]

\* the truthiness of the property name of obj, for properties that hold a
\* string or an object when present: a missing property is undefined, and
\* the empty string is falsy
Truthy(obj, name) == name \in DOMAIN obj /\ obj[name] # ""

-----------------------------------------------------------------------------
(* The classify handler *)

\* the handler without the return in front of the 500 of a failed classify:
\* it goes on to answer 200 with the failed result
classifyHandlerNoReturn(req, existsAtHandler, existsAtClassify, d, clock) ==
    IF req.method # "POST"
    THEN << Json(405, [error |-> "Methode non autorisee"]) >>
    ELSE IF "body" \notin DOMAIN req
    THEN << Json(500, [error |-> "Erreur lors de la classification",
                       details |-> "TypeError"]) >>
    ELSE IF ~ Truthy(req.body, "filePath")
    THEN << Json(400, [error |-> "Chemin du fichier requis"]) >>
    ELSE IF ~ existsAtHandler
    THEN << Json(404, [error |-> "Fichier non trouve"]) >>
    ELSE LET result == classify(existsAtClassify, d, clock)
             sent   == IF "coordinates" \in DOMAIN req.body
                       THEN WithProperty(result, "coordinates",
                                         req.body.coordinates)
                       ELSE result
         IN  IF ~ result.success
             THEN << Json(500, [error |-> result.error]), Json(200, sent) >>
             ELSE << Json(200, sent) >>

\* handler(req, res) of the classify endpoint.  existsAtHandler and
\* existsAtClassify are the answers of the two fs.existsSync calls (the file
\* may be removed between them).  Destructuring req.body throws a TypeError
\* when the request has no body, which the catch turns into a 500.
classifyHandler(req, existsAtHandler, existsAtClassify, d, clock) ==
    IF req.method # "POST"
    THEN << Json(405, [error |-> "Methode non autorisee"]) >>
    ELSE IF "body" \notin DOMAIN req
    THEN << Json(500, [error |-> "Erreur lors de la classification",
                       details |-> "TypeError"]) >>
    ELSE IF ~ Truthy(req.body, "filePath")
    THEN << Json(400, [error |-> "Chemin du fichier requis"]) >>
    ELSE IF ~ existsAtHandler
    THEN << Json(404, [error |-> "Fichier non trouve"]) >>
    ELSE LET result == classify(existsAtClassify, d, clock)
         IN  IF ~ result.success
             THEN << Json(500, [error |-> result.error]) >>
             ELSE IF "coordinates" \in DOMAIN req.body
             THEN << Json(200, WithProperty(result, "coordinates",
                                            req.body.coordinates)) >>
             ELSE << Json(200, result) >>

-----------------------------------------------------------------------------
(* Text *)

Digit == << "0", "1", "2", "3", "4", "5", "6", "7", "8", "9" >>

RECURSIVE NatToString(_)
\* the decimal digits of a natural number
NatToString(n) ==
    IF n < 10 THEN << Digit[n + 1] >>
    ELSE NatToString(n \div 10) \o << Digit[(n % 10) + 1] >>

RECURSIVE PadDigits(_, _)
\* the decimal digits of n, padded on the left with zeros to width digits
PadDigits(n, width) ==
    IF width <= 1 THEN << Digit[(n % 10) + 1] >>
    ELSE PadDigits(n \div 10, width - 1) \o << Digit[(n % 10) + 1] >>

RECURSIVE FractionToString(_, _)
\* the digits of frac / 10^width after the decimal point, without the
\* trailing zeros (0 < frac < 10^width)
FractionToString(frac, width) ==
    IF frac % 10 = 0 THEN FractionToString(frac \div 10, width - 1)
    ELSE PadDigits(frac, width)

\* Number.prototype.toString of a micro value, as template literals and
\* Array.prototype.join apply it: "-" for a negative number, the integer
\* part, and the fraction, if any, after "."
NumberToString(x) ==
    LET abs  == IF x < 0 THEN -x ELSE x
        frac == abs % Micro
    IN  (IF x < 0 THEN << "-" >> ELSE << >>)
        \o NatToString(abs \div Micro)
        \o (IF frac = 0 THEN << >> ELSE << "." >> \o FractionToString(frac, 6))

RECURSIVE Join(_, _)
\* Array.prototype.join(sep) of an array of texts
Join(parts, sep) ==
    IF Len(parts) = 0 THEN << >>
    ELSE IF Len(parts) = 1 THEN parts[1]
    ELSE parts[1] \o << sep >> \o Join(Tail(parts), sep)

\* `"${text}"`
Quoted(text) == << "\"", text, "\"" >>

-----------------------------------------------------------------------------
(* Export formatters *)

\* whether generateCSV and generateGeoJSON can read a result: they
\* dereference result.prediction, result.features and result.metadata, and a
\* property read on undefined throws a TypeError
Readable(result) == {"prediction", "features", "metadata"} \subseteq DOMAIN result

\* whether generatePDFReport can read a result: it dereferences
\* result.prediction and result.features and calls toFixed on
\* result.features.area_ha
ReportReadable(result) ==
    /\ {"prediction", "features"} \subseteq DOMAIN result
    /\ "area_ha" \in DOMAIN result.features

\* result.coordinates?.lat || '' (and the same for lng): a missing value and
\* the number 0 are both falsy and give the empty string
CSVCoordinate(result, axis) ==
    IF "coordinates" \in DOMAIN result /\ result.coordinates[axis] # 0
    THEN NumberToString(MilliToMicro(result.coordinates[axis]))
    ELSE << >>

CSVHeaders ==
    << "ID", "Culture_Predite", "Confiance", "Niveau_Confiance",
       "Action_Recommandee", "NDVI", "EVI", "SAVI", "Surface_Ha", "Latitude",
       "Longitude", "Timestamp" >>

\* the row of generateCSV for the result at index + 1, before the join
CSVRow(result, id) ==
    << NumberToString(id * Micro),
       Quoted(result.prediction.predicted_class),
       NumberToString(MilliToMicro(result.prediction.confidence)),
       NumberToString(result.prediction.confidence_level * Micro),
       Quoted(result.prediction.recommended_action),
       NumberToString(MilliToMicro(result.features.ndvi)),
       NumberToString(MilliToMicro(result.features.evi)),
       NumberToString(MilliToMicro(result.features.savi)),
       NumberToString(result.features.area_ha),
       CSVCoordinate(result, "lat"),
       CSVCoordinate(result, "lng"),
       << result.metadata.timestamp >> >>

RECURSIVE CSVRows(_, _)
\* the rows results.forEach appends for the results from position id on
CSVRows(results, id) ==
    IF id > Len(results) THEN << >>
    ELSE Join(CSVRow(results[id], id), ",") \o << "\n" >> \o CSVRows(results, id + 1)

\* generateCSV(results), for readable results
generateCSV(results) ==
    Join([i \in 1..Len(CSVHeaders) |-> << CSVHeaders[i] >>], ",") \o << "\n" >>
    \o CSVRows(results, 1)

\* result.coordinates?.lng || 0 (and the same for lat): a missing value is
\* falsy and gives 0, and so does the number 0
OrZero(result, axis) ==
    IF "coordinates" \in DOMAIN result /\ result.coordinates[axis] # 0
    THEN result.coordinates[axis]
    ELSE 0

\* the coordinates array with the latitude first
GeoCoordinatesLatFirst(result) ==
    << OrZero(result, "lat"), OrZero(result, "lng") >>

\* [result.coordinates?.lng || 0, result.coordinates?.lat || 0]
GeoCoordinates(result) ==
    << OrZero(result, "lng"), OrZero(result, "lat") >>

\* generateGeoJSON(results), for readable results
generateGeoJSON(results) ==
    [type     |-> "FeatureCollection",
     features |->
        [i \in 1..Len(results) |->
            [type       |-> "Feature",
             properties |->
                [id                 |-> i,
                 culture_predite    |-> results[i].prediction.predicted_class,
                 confiance          |-> results[i].prediction.confidence,
                 niveau_confiance   |-> results[i].prediction.confidence_level,
                 action_recommandee |-> results[i].prediction.recommended_action,
                 ndvi               |-> results[i].features.ndvi,
                 evi                |-> results[i].features.evi,
                 savi               |-> results[i].features.savi,
                 surface_ha         |-> results[i].features.area_ha,
                 timestamp          |-> results[i].metadata.timestamp],
             geometry   |-> [type |-> "Point",
                             coordinates |-> GeoCoordinates(results[i])]]]]

RECURSIVE SumConfidence(_, _)
\* results.reduce((sum, r) => sum + r.prediction.confidence, 0), in milli
SumConfidence(results, i) ==
    IF i > Len(results) THEN 0
    ELSE results[i].prediction.confidence + SumConfidence(results, i + 1)

\* the class of a confidence cell with >= in place of > in both tests
ConfidenceBandInclusive(confidence) ==
    IF confidence >= 700 THEN "confidence-high"
    ELSE IF confidence >= 400 THEN "confidence-medium"
    ELSE "confidence-low"

RECURSIVE CultureStats(_, _)
\* cultureStats after the forEach has visited the first n results:
\* cultureStats[culture] = (cultureStats[culture] || 0) + 1
CultureStats(results, n) ==
    IF n = 0 THEN << >>
    ELSE LET before  == CultureStats(results, n - 1)
             culture == results[n].prediction.predicted_class
         IN  [c \in DOMAIN before \cup {culture} |->
                 IF c = culture
                 THEN (IF c \in DOMAIN before THEN before[c] ELSE 0) + 1
                 ELSE before[c]]

\* the class of the confidence cell of a row of the report
ConfidenceBand(confidence) ==
    IF confidence > 700 THEN "confidence-high"
    ELSE IF confidence > 400 THEN "confidence-medium"
    ELSE "confidence-low"

\* generatePDFReport(results), for readable results and results.length > 0:
\* the values the template interpolates.  avgConfidence is the text of
\* (avgConfidence * 100).toFixed(1) in tenths of a percent.
generatePDFReport(results) ==
    LET totalResults == Len(results)
        cultureStats == CultureStats(results, totalResults)
    IN  [totalResults  |-> totalResults,
         avgConfidence |-> (2 * SumConfidence(results, 1) + totalResults)
                               \div (2 * totalResults),
         cultureCount  |-> Cardinality(DOMAIN cultureStats),
         cultureStats  |-> cultureStats,
         rows |->
            [i \in 1..totalResults |->
                [id         |-> i,
                 culture    |-> results[i].prediction.predicted_class,
                 band       |-> ConfidenceBand(results[i].prediction.confidence),
                 confidence |-> results[i].prediction.confidence,
                 level      |-> results[i].prediction.confidence_level,
                 ndvi       |-> results[i].features.ndvi,
                 area       |-> (results[i].features.area_ha + 5000) \div 10000,
                 action     |-> results[i].prediction.recommended_action]]]

-----------------------------------------------------------------------------
(* validationSchemas.exportParams *)

allowedFormats == << "csv", "geojson", "pdf" >>

\* exportParams.validate(params) for params that is an object: the errors it
\* collects, in order, and its verdict
exportParamsValidate(params) ==
    LET formatError ==
            IF \/ ~ Truthy(params, "format")
               \/ params.format \notin { allowedFormats[i] : i \in 1..Len(allowedFormats) }
            THEN << "Format invalide. Formats autorises: csv, geojson, pdf" >>
            ELSE << >>
        resultsError ==
            IF \/ "results" \notin DOMAIN params
               \/ params.results.type # "array"
               \/ Len(params.results.items) = 0
            THEN << "Aucun resultat a exporter" >>
            ELSE << >>
        errors == formatError \o resultsError
    IN  [isValid |-> Len(errors) = 0, errors |-> errors]

-----------------------------------------------------------------------------
(* The export handler *)

\* the guard without the test of the length
NoResultsLengthUnchecked(body) ==
    \/ "results" \notin DOMAIN body
    \/ body.results.type # "array"

\* !results || !Array.isArray(results) || results.length === 0
NoResults(body) ==
    \/ "results" \notin DOMAIN body
    \/ body.results.type # "array"
    \/ Len(body.results.items) = 0

\* a switch that matches the format whatever its letter case
FormatCaseAnyLetterCase(body) ==
    IF "format" \notin DOMAIN body THEN "default"
    ELSE IF body.format \in {"csv", "CSV"} THEN "csv"
    ELSE IF body.format = "geojson" THEN "geojson"
    ELSE IF body.format = "pdf" THEN "pdf"
    ELSE "default"

\* switch (format): the case that a request's format selects (=== on the
\* case labels; a missing format is undefined and selects the default)
FormatCase(body) ==
    IF "format" \notin DOMAIN body THEN "default"
    ELSE IF body.format \in {"csv", "geojson", "pdf"} THEN body.format
    ELSE "default"

\* the three headers of a download
DownloadHeaders(contentType, filename) ==
    << SetHeader("Content-Type", contentType),
       SetHeader("Content-Disposition", filename),
       SetHeader("Cache-Control", "no-cache") >>

\* the 500 of the catch block
ExportFailure ==
    << Json(500, [error |-> "Erreur lors de l'export", details |-> "TypeError"]) >>

\* handler(req, res) of the export endpoint.  The file name is modelled by
\* its stem and extension (the timestamp in it is left out).
exportHandler(req) ==
    IF req.method # "POST"
    THEN << Json(405, [error |-> "Methode non autorisee"]) >>
    ELSE IF "body" \notin DOMAIN req
    THEN ExportFailure
    ELSE IF NoResults(req.body)
    THEN << Json(400, [error |-> "Donnees de resultats requises"]) >>
    ELSE LET results == req.body.results.items
             format  == FormatCase(req.body)
             throws  == \E i \in 1..Len(results) : ~ Readable(results[i])
         IN  IF format = "csv"
             THEN IF throws THEN ExportFailure
                  ELSE DownloadHeaders("text/csv", "classification_results.csv")
                       \o << Send(200, [csv |-> generateCSV(results)]) >>
             ELSE IF format = "geojson"
             THEN IF throws THEN ExportFailure
                  ELSE DownloadHeaders("application/geo+json",
                                       "classification_results.geojson")
                       \o << Send(200, [geojson |-> generateGeoJSON(results)]) >>
             ELSE IF format = "pdf"
             THEN IF \E i \in 1..Len(results) : ~ ReportReadable(results[i])
                  THEN ExportFailure
                  ELSE DownloadHeaders("text/html", "rapport_classification.html")
                       \o << Send(200, [html |-> generatePDFReport(results)]) >>
             ELSE << Json(400, [error |->
                        "Format non supporte. Utilisez: csv, geojson, ou pdf"]) >>

-----------------------------------------------------------------------------
(* Inputs *)

\* number of cells of the grid of confidences handed to the tier scan
TierGrid == 200

\* confidences in [0,1] (micro): a grid, and each threshold with its neighbours
ConfidenceSamples ==
    { k * (Micro \div TierGrid) : k \in 0..TierGrid }
    \cup { confidenceLevels[i].threshold + d :
             i \in 1..Len(confidenceLevels), d \in {0, 1} }
    \cup { confidenceLevels[i].threshold - 1 : i \in 1..4 }
    \cup { Micro }

\* confidences outside [0,1] (micro)
OutOfRangeConfidences == { -500000, -1, Micro + 1, 1500000 }

\* draws of Math.random(), r standing for r/1000
RandomDraws == { 0, 1, 4, 5, 499, 500, 995, 999 }

\* draws used for the probabilities of the classes not predicted
ProbabilityDraws == { 0, 500 }

NdviSamples == { -2000, -1000, 0, 600, 601, 800, 801, 850, 1000, 1500 }
EviSamples  == { -1000, 900, 901, 950, 1200 }
SaviSamples == { 0, 700, 701, 800 }

\* feature vectors handed to predict (indices in milli, the rest in micro)
FeatureVectors ==
    [ ndvi : NdviSamples, evi : EviSamples, savi : SaviSamples,
      mean_red : {250000}, mean_nir : {800000}, std_red : {45000},
      std_nir : {70000}, area_ha : {3000000} ]

\* draws of extractFeatures: every draw for the ndvi, a sample for the rest
FeatureDraws ==
    [ ndvi : RandomDraws, mean_red : {500}, mean_nir : {500}, std_red : {500},
      std_nir : {500}, area_ha : {0, 500} ]

\* the draws of one classify call
ClassifyDraws ==
    [ features : FeatureDraws, confidence : RandomDraws,
      p1 : ProbabilityDraws, p2 : {500}, processing_time : {500} ]

\* instants of new Date().toISOString()
Clocks == { "2024-05-01T10:00:00.000Z" }

\* coordinates a client sends (milli degrees): in range, on the equator and
\* the prime meridian, and out of range
CoordinateSamples ==
    { [lat |-> 5500, lng |-> -4250], [lat |-> 0, lng |-> 0],
      [lat |-> 0, lng |-> 10000], [lat |-> 95000, lng |-> 200000] }

\* bodies of a classify request: filePath missing, empty or set, with and
\* without coordinates
ClassifyBodies ==
    { [filePath |-> p] : p \in {"", "img1.tif"} }
    \cup { [filePath |-> "img1.tif", coordinates |-> c] : c \in CoordinateSamples }
    \cup { [coordinates |-> c] : c \in CoordinateSamples }

ClassifyRequests ==
    { [method |-> m] : m \in {"GET", "POST"} }
    \cup { [method |-> m, body |-> b] : m \in {"GET", "POST"}, b \in ClassifyBodies }

\* Date.now() of the browser when a result is formatted (milliseconds since
\* the page was opened, to keep the numbers small)
Nows == { 1000, 1001 }

\* formatClassificationResult(result) of the client service, for a response
\* of the classify endpoint that carries a prediction; now is Date.now().
\* A property whose value is undefined is left out (JSON drops it).
formatClassificationResult(result, now) ==
    LET record ==
          [id              |-> now,
           culture         |-> result.prediction.predicted_class,
           confidence      |-> result.prediction.confidence,
           confidenceLevel |-> result.prediction.confidence_level,
           confidenceLabel |-> result.prediction.confidence_label,
           action          |-> result.prediction.recommended_action,
           features        |-> [ndvi |-> result.features.ndvi,
                                evi  |-> result.features.evi,
                                savi |-> result.features.savi,
                                area |-> result.features.area_ha],
           timestamp       |-> result.metadata.timestamp,
           processingTime  |-> result.metadata.processing_time]
    IN  IF "coordinates" \in DOMAIN result
        THEN WithProperty(record, "coordinates", result.coordinates)
        ELSE record

\* the draws of the results handed to the export: one per label
ExportDraws ==
    { [features |-> [ndvi |-> r, mean_red |-> 500, mean_nir |-> 500,
                     std_red |-> 500, std_nir |-> 500, area_ha |-> 500],
       confidence |-> r, p1 |-> 500, p2 |-> 500, processing_time |-> 500] :
      r \in {0, 500, 999} }

\* results as the classify endpoint answers them: without coordinates, and
\* with coordinates off and on the equator and prime meridian
ServerResults ==
    LET plain == { classify(TRUE, d, "2024-05-01T10:00:00.000Z") : d \in ExportDraws }
        first == classify(TRUE, CHOOSE d \in ExportDraws : d.confidence = 999,
                          "2024-05-01T10:00:00.000Z")
    IN  plain
        \cup { WithProperty(first, "coordinates", c) :
                 c \in { [lat |-> 5500, lng |-> -4250], [lat |-> 0, lng |-> 0],
                         [lat |-> 0, lng |-> 10000] } }

\* results a client posts with a confidence of its own: on and next to the
\* 0.7 and 0.4 boundaries of the report's bands
PostedResults ==
    LET base == classify(TRUE, CHOOSE d \in ExportDraws : d.confidence = 0,
                         "2024-05-01T10:00:00.000Z")
    IN  { [base EXCEPT !.prediction.confidence = c] : c \in {400, 401, 700, 701} }

\* results as the browser session holds them
SessionResults ==
    { formatClassificationResult(
          classify(TRUE, CHOOSE d \in ExportDraws : d.confidence = 0,
                   "2024-05-01T10:00:00.000Z"), 1000) }

\* longest results array of an export request
MaxResults == 2

RECURSIVE SeqsUpTo(_, _)
\* the sequences over S of length at most n
SeqsUpTo(S, n) ==
    IF n = 0 THEN { << >> }
    ELSE LET shorter == SeqsUpTo(S, n - 1)
         IN  shorter \cup { Append(q, x) : q \in shorter, x \in S }

\* values of the results property: an array, or something that is not one
ResultsValues ==
    { [type |-> "array", items |-> q] :
        q \in SeqsUpTo(ServerResults \cup PostedResults \cup SessionResults,
                     MaxResults) }
    \cup { [type |-> "string", items |-> << >>] }

ExportFormats == { "csv", "geojson", "pdf", "xml", "CSV" }

ExportBodies ==
    { [format |-> f, results |-> v] : f \in ExportFormats, v \in ResultsValues }
    \cup { [format |-> f] : f \in ExportFormats }
    \cup { [results |-> v] : v \in ResultsValues }

ExportRequests ==
    { [method |-> m] : m \in {"GET", "POST"} }
    \cup { [method |-> "POST", body |-> b] : b \in ExportBodies }
    \cup { [method |-> "GET", body |-> b] :
             b \in { x \in ExportBodies : "results" \in DOMAIN x
                                          /\ Len(x.results.items) <= 1 } }

-----------------------------------------------------------------------------
(* Idle components *)

TierIdle     == tierIn = None /\ tierOut = None
PredictIdle  == features = None /\ outcome = None
ClassifyIdle == classifyReq = None /\ classifyRes = <<>>
ExportIdle   == exportReq = None /\ exportRes = <<>>

\* the upload endpoint, the middleware, the feature extraction and the rate
\* limiter before their first call: nothing served, an empty uploads
\* directory, an empty Map, the clock at its origin
UploadIdle     == uploadReq = None /\ uploadRes = <<>> /\ uploadDirFiles = {}
MiddlewareIdle == middlewareReq = None /\ middlewareRes = None
FeatureIdle    == extracted = None /\ classified = None
RateLimiterIdle == rateLimiter = << >> /\ dateNow = 0 /\ rateLog = << >>
\* the sanitizers before a call, the MemoryCache after its constructor (two
\* empty Maps, no timeout set) and withRetry before a call
SanitizeIdle == sanitized = None
CacheIdle    ==
    /\ cache = << >> /\ timers = << >> /\ timeouts = {}
    /\ cacheLog = [calls |-> 0, op |-> "", key |-> "", at |-> 0,
                   returned |-> None, latest |-> << >>]
RetryIdle    == retry = None
ModulesIdle == UploadIdle /\ MiddlewareIdle /\ FeatureIdle /\ RateLimiterIdle
               /\ SanitizeIdle /\ CacheIdle /\ RetryIdle

\* the state of App after its first render: the useState initial values, no
\* timer set, nothing in flight
AppInit ==
    /\ selectedFile = None
    /\ uploadResult = None
    /\ isProcessing = FALSE
    /\ shownResult = None
    /\ allResults = << >>
    /\ error = None
    /\ processingProgress = 0
    /\ activeTab = "dashboard"
    /\ classifying = None
    /\ intervals = {}
    /\ errorTimers = << >>
    /\ errorAge = 0
    /\ started = 0
    /\ lastExport = None

-----------------------------------------------------------------------------
(* The tier scan applied to a confidence.  The scan keeps no state, so one  *)
(* application per behaviour covers every application.                     *)

ScanTiers ==
    /\ tierIn = None
    /\ \E c \in ConfidenceSamples \cup OutOfRangeConfidences :
          /\ tierIn' = [confidence |-> c]
          /\ tierOut' = FindConfidenceLevel(c)
    /\ UNCHANGED <<predictVars, classifyVars, exportVars, appVars, moduleVars>>

InitTier == TierIdle /\ PredictIdle /\ ClassifyIdle /\ ExportIdle /\ AppInit /\ ModulesIdle
NextTier == ScanTiers
SpecTier == InitTier /\ [][NextTier]_vars

-----------------------------------------------------------------------------
(* predict applied to a feature vector.  predict keeps no state between    *)
(* calls, so one call per behaviour covers every call.                     *)

PredictCall ==
    /\ features = None
    /\ \E f \in FeatureVectors, r \in RandomDraws,
          p1 \in ProbabilityDraws, p2 \in ProbabilityDraws :
          /\ features' = f
          /\ outcome' = predict(f, r, p1, p2)
    /\ UNCHANGED <<tierVars, classifyVars, exportVars, appVars, moduleVars>>

Init == TierIdle /\ PredictIdle /\ ClassifyIdle /\ ExportIdle /\ AppInit /\ ModulesIdle
Next == PredictCall
Spec == Init /\ [][Next]_vars

-----------------------------------------------------------------------------
(* The classify and export endpoints serving a request.  The handlers keep *)
(* no state between requests and share none, so one request per behaviour  *)
(* covers every request.                                                   *)

ClassifyRequest ==
    /\ classifyReq = None /\ exportReq = None
    /\ \E req \in ClassifyRequests, existsAtHandler \in BOOLEAN,
          existsAtClassify \in BOOLEAN, d \in ClassifyDraws, clock \in Clocks :
          /\ classifyReq' = req
          /\ classifyRes' = classifyHandler(req, existsAtHandler,
                                            existsAtClassify, d, clock)
    /\ UNCHANGED <<tierVars, predictVars, exportVars, appVars, moduleVars>>

ExportRequest ==
    /\ classifyReq = None /\ exportReq = None
    /\ \E req \in ExportRequests :
          /\ exportReq' = req
          /\ exportRes' = exportHandler(req)
    /\ UNCHANGED <<tierVars, predictVars, classifyVars, appVars, moduleVars>>

InitHandlers == TierIdle /\ PredictIdle /\ ClassifyIdle /\ ExportIdle /\ AppInit /\ ModulesIdle
NextHandlers == ClassifyRequest \/ ExportRequest
SpecHandlers == InitHandlers /\ [][NextHandlers]_vars

-----------------------------------------------------------------------------
(* Client services *)

\* classifyImage(filePath): what the await of the POST gives for the writes
\* of the classify endpoint, or for a request that never got an answer
\* (writes empty).  axios rejects on a status outside 2xx and the service
\* rethrows error.response?.data?.error || 'Erreur lors de la classification'.
classifyImage(writes) ==
    IF Len(writes) = 0
    THEN [ok |-> FALSE, message |-> "Erreur lors de la classification"]
    ELSE IF writes[1].status = 200
    THEN [ok |-> TRUE, data |-> writes[1].body]
    ELSE [ok |-> FALSE, message |-> writes[1].body.error]

\* exportResults(format, results): what the await of the POST gives for the
\* writes of the export endpoint.  The answer is read as a blob, so on a
\* failure error.response.data.error is undefined and the service throws
\* its own message.
exportResults(writes) ==
    IF Len(writes) > 0 /\ writes[Len(writes)].status = 200
    THEN [ok       |-> TRUE,
          blob     |-> writes[Len(writes)].body,
          filename |-> (CHOOSE w \in { writes[i] : i \in 1..Len(writes) } :
                           w.op = "setHeader" /\ w.name = "Content-Disposition").value]
    ELSE [ok |-> FALSE, message |-> "Erreur lors de l'export"]

-----------------------------------------------------------------------------
(* App *)

\* classifications started in one session
MaxClassify == 2

\* error timers pending at once
MaxErrorTimers == 2

\* the draws of the classifications of a session: one that gives Cacao and
\* one that gives Foret
AppDraws == { d \in ExportDraws : d.confidence \in {0, 999} }

\* Date.now() of the browser when the result of the n-th classification of
\* the session is formatted: later for a later classification
SessionNow(n) == 1000 + n

\* files the upload has accepted, with the name the server stored them under
UploadedFiles == { "upload_a.tif", "upload_b.png" }

\* the 5000 ms of the timer of handleError, in ticks of 2500 ms
ErrorDelay == 2

\* handleError(errorMessage): the message is shown and a timer is set that
\* will clear whatever error is shown 5 seconds later
handleError(errorMessage) ==
    /\ error' = [message |-> errorMessage]
    /\ errorAge' = 0
    /\ errorTimers' = Append(errorTimers, ErrorDelay)

\* handleFileSelect(file, uploadResult), called by FileUpload when the upload
\* succeeded
HandleFileSelect ==
    /\ \E name \in UploadedFiles :
          /\ selectedFile' = [name |-> name]
          /\ uploadResult' = [success |-> TRUE, file |-> [filename |-> name]]
    /\ error' = None
    /\ errorAge' = 0
    /\ UNCHANGED <<isProcessing, shownResult, allResults, processingProgress,
                   activeTab, classifying, intervals, errorTimers, started,
                   lastExport, serverVars, moduleVars>>

\* onError of FileUpload: the file was refused by validateFile or the upload
\* failed
HandleUploadError ==
    /\ Len(errorTimers) < MaxErrorTimers
    /\ \E message \in { "Type de fichier non supporte. Utilisez JPEG, PNG, TIFF ou GeoTIFF",
                        "Erreur lors de l'upload du fichier" } :
          handleError(message)
    /\ UNCHANGED <<selectedFile, uploadResult, isProcessing, shownResult,
                   allResults, processingProgress, activeTab, classifying,
                   intervals, started, lastExport, serverVars, moduleVars>>

\* the callback of setTimeout(() => setError(null), 5000): timers of one
\* delay run in the order they were set, none before its delay has passed
ErrorTimeout ==
    /\ errorTimers # << >>
    /\ Head(errorTimers) = 0
    /\ errorTimers' = Tail(errorTimers)
    /\ error' = None
    /\ errorAge' = 0
    /\ UNCHANGED <<selectedFile, uploadResult, isProcessing, shownResult,
                   allResults, processingProgress, activeTab, classifying,
                   intervals, started, lastExport, serverVars, moduleVars>>

\* handleClassify up to its await: the button is disabled while isProcessing
HandleClassifyStart ==
    /\ selectedFile # None /\ uploadResult # None
    /\ ~ isProcessing
    /\ started < MaxClassify
    /\ isProcessing' = TRUE
    /\ processingProgress' = 0
    /\ error' = None
    /\ errorAge' = 0
    /\ started' = started + 1
    /\ intervals' = intervals \cup {started + 1}
    /\ classifying' = [interval |-> started + 1,
                       filePath |-> uploadResult.file.filename]
    /\ UNCHANGED <<selectedFile, uploadResult, shownResult, allResults,
                   activeTab, errorTimers, lastExport, serverVars, moduleVars>>

\* the callback of the progress interval id: it stops itself once the
\* progress has reached 90
ProgressTick ==
    /\ \E id \in intervals :
          IF processingProgress >= 90
          THEN /\ intervals' = intervals \ {id}
               /\ processingProgress' = 90
          ELSE /\ processingProgress' = processingProgress + 10
               /\ UNCHANGED intervals
    /\ UNCHANGED <<selectedFile, uploadResult, isProcessing, shownResult,
                   allResults, error, errorAge, activeTab, classifying, errorTimers,
                   started, lastExport, serverVars, moduleVars>>

\* the updater with the new record put first: prev => [formattedResult, ...prev]
prependResult(prev, formattedResult) == << formattedResult >> \o prev

\* the updater handed to setAllResults: prev => [...prev, formattedResult]
appendResult(prev, formattedResult) == Append(prev, formattedResult)

\* handleClassify from the answer of classifyImage to the end of its finally
\* block.  answered is FALSE when the request got no answer (network error
\* or timeout).
HandleClassifyAnswer ==
    /\ classifying # None
    /\ \E answered \in BOOLEAN, existsAtHandler \in BOOLEAN,
          existsAtClassify \in BOOLEAN, d \in AppDraws, clock \in Clocks :
          LET writes == IF answered
                        THEN classifyHandler(
                                 [method |-> "POST",
                                  body |-> [filePath |-> classifying.filePath]],
                                 existsAtHandler, existsAtClassify, d, clock)
                        ELSE << >>
              classificationResult == classifyImage(writes)
          IN  IF classificationResult.ok
              THEN LET formattedResult ==
                          formatClassificationResult(classificationResult.data,
                                                     SessionNow(started))
                   IN  /\ intervals' = intervals \ {classifying.interval}
                       /\ shownResult' = formattedResult
                       /\ allResults' = appendResult(allResults, formattedResult)
                       /\ activeTab' = "results"
                       /\ UNCHANGED <<error, errorAge, errorTimers>>
              ELSE /\ Len(errorTimers) < MaxErrorTimers
                   /\ handleError(classificationResult.message)
                   /\ UNCHANGED <<intervals, shownResult, allResults, activeTab, serverVars>>
    /\ isProcessing' = FALSE
    /\ processingProgress' = 0
    /\ classifying' = None
    /\ UNCHANGED <<selectedFile, uploadResult, started, lastExport, serverVars, moduleVars>>

\* handleExport(format), from the click to the download or the error.  The
\* three export buttons are rendered only while `results` is set.
HandleExport ==
    /\ shownResult # None
    /\ \E format \in {"csv", "geojson", "pdf"} :
          IF Len(allResults) = 0
          THEN /\ Len(errorTimers) < MaxErrorTimers
               /\ handleError("Aucun resultat a exporter")
               /\ lastExport' = [format |-> format, results |-> allResults,
                                 downloaded |-> FALSE]
          ELSE LET writes == exportHandler(
                                 [method |-> "POST",
                                  body |-> [format |-> format,
                                            results |-> [type |-> "array",
                                                         items |-> allResults]]])
                   answer == exportResults(writes)
               IN  IF answer.ok
                   THEN /\ lastExport' = [format |-> format, results |-> allResults,
                                          downloaded |-> TRUE,
                                          blob |-> answer.blob,
                                          filename |-> answer.filename]
                        /\ UNCHANGED <<error, errorAge, errorTimers>>
                   ELSE /\ Len(errorTimers) < MaxErrorTimers
                        /\ handleError(answer.message)
                        /\ lastExport' = [format |-> format, results |-> allResults,
                                          downloaded |-> FALSE]
    /\ UNCHANGED <<selectedFile, uploadResult, isProcessing, shownResult,
                   allResults, processingProgress, activeTab, classifying,
                   intervals, started, serverVars, moduleVars>>

\* one tick passes: every pending timer is one tick nearer (a timer that is
\* due may still be waiting for the event loop) and the error on display is
\* one tick older
AppClockTick ==
    /\ \/ \E i \in 1..Len(errorTimers) : errorTimers[i] > 0
       \/ error # None /\ errorAge < ErrorDelay
    /\ errorTimers' = [i \in 1..Len(errorTimers) |->
                          IF errorTimers[i] > 0 THEN errorTimers[i] - 1 ELSE 0]
    /\ errorAge' = IF error # None /\ errorAge < ErrorDelay THEN errorAge + 1
                   ELSE errorAge
    /\ UNCHANGED <<selectedFile, uploadResult, isProcessing, shownResult,
                   allResults, error, processingProgress, activeTab, classifying,
                   intervals, started, lastExport, serverVars, moduleVars>>

InitApp == TierIdle /\ PredictIdle /\ ClassifyIdle /\ ExportIdle /\ AppInit /\ ModulesIdle
NextApp ==
    \/ HandleFileSelect
    \/ HandleUploadError
    \/ ErrorTimeout
    \/ HandleClassifyStart
    \/ ProgressTick
    \/ HandleClassifyAnswer
    \/ HandleExport
    \/ AppClockTick
SpecApp == InitApp /\ [][NextApp]_vars

-----------------------------------------------------------------------------
(* Strings read character by character: file names are sequences of       *)
(* one-character strings                                                   *)

\* String.prototype.toLowerCase on one character (the letters that occur in
\* the file names of the model)
LowerChar(c) ==
    CASE c = "J" -> "j" [] c = "P" -> "p" [] c = "G" -> "g" [] c = "E" -> "e"
      [] c = "N" -> "n" [] c = "T" -> "t" [] c = "I" -> "i" [] c = "F" -> "f"
      [] c = "A" -> "a" [] c = "X" -> "x" [] c = "S" -> "s"
      [] OTHER -> c

\* s.toLowerCase()
ToLowerCase(s) == [i \in 1..Len(s) |-> LowerChar(s[i])]

\* s.endsWith(suffix)
EndsWith(s, suffix) ==
    /\ Len(s) >= Len(suffix)
    /\ SubSeq(s, Len(s) - Len(suffix) + 1, Len(s)) = suffix

\* s.slice(-n): the last n characters, the whole string when it is shorter
SliceLast(s, n) == IF Len(s) <= n THEN s ELSE SubSeq(s, Len(s) - n + 1, Len(s))

-----------------------------------------------------------------------------
(* The upload endpoint and validateFileMiddleware *)

\* 10 * 1024 * 1024
maxFileSize == 10 * 1024 * 1024

allowedTypes == { "image/jpeg", "image/png", "image/tiff", "image/geotiff" }

\* allowedExtensions, in the order of the array
allowedExtensions ==
    << <<".", "j", "p", "g">>, <<".", "j", "p", "e", "g">>,
       <<".", "p", "n", "g">>, <<".", "t", "i", "f">>,
       <<".", "t", "i", "f", "f">> >>

\* the filter handed to formidable: the type is allowed, or the name ends
\* with .tif or .tiff in any letter case
uploadFilter(file) ==
    \/ file.mimetype \in allowedTypes
    \/ EndsWith(ToLowerCase(file.originalFilename), <<".", "t", "i", "f">>)
    \/ EndsWith(ToLowerCase(file.originalFilename), <<".", "t", "i", "f", "f">>)

\* the upload handler.  req.file is the part named file of the multipart
\* body when there is one.  formidable drops a part its filter refuses, so
\* files.file is then undefined.  What form.parse does with a part larger
\* than maxFileSize is the library's business: overflow says whether it
\* throws (the catch answers 500) or hands the file over (line 61 answers
\* 400 and unlinks it).  newFilename is the name formidable gave the stored
\* file and clock the instant of new Date().  The answer is [writes, files]:
\* the writes on res and the files left in uploadDir by this request.
uploadHandler(req, overflow, newFilename, clock) ==
    IF req.method # "POST"
    THEN [writes |-> << Json(405, [error |-> "Methode non autorisee"]) >>,
          files |-> {}]
    ELSE IF ~ ("file" \in DOMAIN req /\ uploadFilter(req.file))
    THEN [writes |-> << Json(400, [error |-> "Aucun fichier uploade"]) >>,
          files |-> {}]
    ELSE IF req.file.size > maxFileSize /\ overflow = "throws"
    THEN [writes |-> << Json(500, [error |-> "Erreur lors de l'upload du fichier",
                                   details |-> "maxFileSize exceeded"]) >>,
          files |-> {}]
    ELSE IF req.file.size > maxFileSize
    THEN [writes |-> << Json(400, [error |-> "Fichier trop volumineux (max 10MB)"]) >>,
          files |-> {}]
    ELSE [writes |-> << Json(200,
                  [success |-> TRUE,
                   message |-> "Fichier uploade avec succes",
                   file |-> [filename     |-> newFilename,
                             originalName |-> req.file.originalFilename,
                             size         |-> req.file.size,
                             mimetype     |-> req.file.mimetype,
                             path         |-> <<"uploads", newFilename>>,
                             uploadedAt   |-> clock]]) >>,
          files |-> {newFilename}]

\* `${(size / 1024 / 1024).toFixed(2)}MB`: hundredths of a MiB, rounded to
\* the nearest (sizes of the model stay below 2^31 / 200)
ReceivedSize(size) == (size * 200 + 1024 * 1024) \div (2 * 1024 * 1024)

\* allowedExtensions.some(ext => fileExtension.endsWith(ext)) for
\* fileExtension = originalname.toLowerCase().slice(-4)
ExtensionAllowed(originalname) ==
    LET fileExtension == SliceLast(ToLowerCase(originalname), 4)
    IN  \E i \in 1..Len(allowedExtensions) :
            EndsWith(fileExtension, allowedExtensions[i])

\* validateFileMiddleware(req, res, next): [writes, next], the writes on
\* res and whether next() was called
validateFileMiddleware(req) ==
    IF "file" \notin DOMAIN req
    THEN [writes |-> << >>, next |-> TRUE]
    ELSE IF req.file.mimetype \notin allowedTypes
    THEN [writes |-> << Json(400, [error |-> "Type de fichier non autorise",
                                   allowedTypes |-> <<"JPEG", "PNG", "TIFF", "GeoTIFF">>]) >>,
          next |-> FALSE]
    ELSE IF req.file.size > maxFileSize
    THEN [writes |-> << Json(400, [error |-> "Fichier trop volumineux",
                                   maxSize |-> "10MB",
                                   receivedSize |-> ReceivedSize(req.file.size)]) >>,
          next |-> FALSE]
    ELSE IF ~ ExtensionAllowed(req.file.originalname)
    THEN [writes |-> << Json(400, [error |-> "Extension de fichier non autorisee",
                                   allowedExtensions |-> allowedExtensions]) >>,
          next |-> FALSE]
    ELSE [writes |-> << >>, next |-> TRUE]

\* names of uploaded files: every allowed extension in lower case, some in
\* upper or mixed case, names with another extension, with none, and one
\* shorter than four characters
FileNames ==
    { <<"a", ".", "j", "p", "g">>, <<"a", ".", "J", "P", "G">>,
      <<"a", ".", "j", "p", "e", "g">>, <<"a", ".", "J", "p", "e", "g">>,
      <<"a", ".", "p", "n", "g">>, <<"a", ".", "t", "i", "f">>,
      <<"a", ".", "t", "i", "f", "f">>, <<"a", ".", "T", "I", "F", "F">>,
      <<"a", ".", "e", "x", "e">>, <<"a", ".", "t", "i", "f", ".", "e", "x", "e">>,
      <<"t", "i", "f">>, <<"a", "j", "p", "g">>, <<".", "p", "n", "g">> }

\* MIME types a client declares: the allowed ones and two others
MimeTypes == allowedTypes \cup { "application/pdf", "image/gif" }

\* sizes in bytes: empty, small, and around the limit
FileSizes == { 0, 2048, maxFileSize - 1, maxFileSize, maxFileSize + 1 }

\* requests to the upload endpoint: without a file part, or with one
UploadRequests ==
    { [method |-> m] : m \in {"GET", "POST"} }
    \cup { [method |-> m,
            file |-> [originalFilename |-> n, mimetype |-> t, size |-> s]] :
           m \in {"GET", "POST"}, n \in FileNames, t \in MimeTypes, s \in FileSizes }

\* requests reaching validateFileMiddleware: req.file is set by the
\* multipart parser when the request carries a file
MiddlewareRequests ==
    { [method |-> "POST"] }
    \cup { [method |-> "POST",
            file |-> [originalname |-> n, mimetype |-> t, size |-> s]] :
           n \in FileNames, t \in MimeTypes, s \in FileSizes }

\* names formidable gives the stored files
NewFilenames == { "upload_a", "upload_b" }

\* The upload endpoint serving a request.  The handler reads nothing that an
\* earlier request left, so one request per behaviour covers every request.
UploadRequest ==
    /\ uploadReq = None /\ middlewareReq = None
    /\ \E req \in UploadRequests, overflow \in {"throws", "delivers"},
          newFilename \in NewFilenames, clock \in Clocks :
          LET answer == uploadHandler(req, overflow, newFilename, clock)
          IN  /\ uploadReq' = req
              /\ uploadRes' = answer.writes
              /\ uploadDirFiles' = uploadDirFiles \cup answer.files
    /\ UNCHANGED <<serverVars, appVars, middlewareVars, featureVars, rateVars, utilityVars>>

\* validateFileMiddleware applied to a request.  It keeps no state, so one
\* application per behaviour covers every application.
ValidateFileRequest ==
    /\ uploadReq = None /\ middlewareReq = None
    /\ \E req \in MiddlewareRequests :
          /\ middlewareReq' = req
          /\ middlewareRes' = validateFileMiddleware(req)
    /\ UNCHANGED <<serverVars, appVars, uploadVars, featureVars, rateVars, utilityVars>>

InitUpload == TierIdle /\ PredictIdle /\ ClassifyIdle /\ ExportIdle /\ AppInit /\ ModulesIdle
NextUpload == UploadRequest \/ ValidateFileRequest
SpecUpload == InitUpload /\ [][NextUpload]_vars

-----------------------------------------------------------------------------
(* validationSchemas.coordinates *)

\* validationSchemas.coordinates.validate(coords) for coords an object with
\* numeric lat and lng (milli degrees), or None for a missing value.  No
\* handler calls it.
coordinatesValidate(coords) ==
    IF coords = None
    THEN [isValid |-> FALSE, errors |-> << "Coordonnees requises" >>]
    ELSE LET latErrors ==
                 IF coords.lat < -90000 \/ coords.lat > 90000
                 THEN << "Latitude invalide (doit etre entre -90 et 90)" >>
                 ELSE << >>
             lngErrors ==
                 IF coords.lng < -180000 \/ coords.lng > 180000
                 THEN << "Longitude invalide (doit etre entre -180 et 180)" >>
                 ELSE << >>
         IN  [isValid |-> Len(latErrors \o lngErrors) = 0,
              errors  |-> latErrors \o lngErrors]

-----------------------------------------------------------------------------
(* extractFeatures applied to an image.  It reads nothing but its draws and *)
(* keeps no state, so one call per behaviour covers every call.            *)

\* draws of one extractFeatures call: every draw for the NDVI, the ends and
\* the middle for the area, a sample for the rest
ExtractDraws ==
    [ ndvi : 0..999, mean_red : {500}, mean_nir : {500}, std_red : {500},
      std_nir : {500}, area_ha : {0, 500, 999} ]

ExtractFeaturesCall ==
    /\ extracted = None /\ classified = None
    /\ \E d \in ExtractDraws :
          extracted' = [draws |-> d, features |-> extractFeatures(d)]
    /\ UNCHANGED classified
    /\ UNCHANGED <<serverVars, appVars, uploadVars, middlewareVars, rateVars, utilityVars>>

\* draws of one classify call: every draw for the NDVI, the draws of
\* RandomDraws for the confidence, a sample for the rest
PipelineDraws ==
    [ features : [ ndvi : 0..999, mean_red : {500}, mean_nir : {500},
                   std_red : {500}, std_nir : {500}, area_ha : {500} ],
      confidence : RandomDraws, p1 : {500}, p2 : {500}, processing_time : {500} ]

\* classify applied to an image: extractFeatures followed by predict.  It
\* keeps no state, so one call per behaviour covers every call.
ClassifyCall ==
    /\ extracted = None /\ classified = None
    /\ \E exists \in BOOLEAN, d \in PipelineDraws, clock \in Clocks :
          classified' = [exists |-> exists, draws |-> d,
                         result |-> classify(exists, d, clock)]
    /\ UNCHANGED extracted
    /\ UNCHANGED <<serverVars, appVars, uploadVars, middlewareVars, rateVars, utilityVars>>

InitFeatures == TierIdle /\ PredictIdle /\ ClassifyIdle /\ ExportIdle /\ AppInit /\ ModulesIdle
NextFeatures == ExtractFeaturesCall \/ ClassifyCall
SpecFeatures == InitFeatures /\ [][NextFeatures]_vars

-----------------------------------------------------------------------------
(* security.checkRateLimit *)

\* the test of the limit with > in place of >=
LimitReachedStrict(validRequests, maxRequests) == Len(validRequests) > maxRequests

\* validRequests.length >= maxRequests
LimitReached(validRequests, maxRequests) == Len(validRequests) >= maxRequests

\* the reset time without the window added to the oldest request
ResetTimeOfOldest(validRequests, windowMs) ==
    IF Len(validRequests) = 0 THEN [infinity |-> TRUE]
    ELSE [time |-> Min({ validRequests[i] : i \in 1..Len(validRequests) })]

\* Math.min(...validRequests) + windowMs; Math.min() of no argument is
\* Infinity
ResetTime(validRequests, windowMs) ==
    IF Len(validRequests) = 0 THEN [infinity |-> TRUE]
    ELSE [time |-> Min({ validRequests[i] : i \in 1..Len(validRequests) }) + windowMs]

\* checkRateLimit(key, maxRequests, windowMs) on the Map rateLimiterMap when
\* Date.now() reads t: [rateLimiter, answer], the Map after the call and the
\* object returned.  A refused call leaves the list of its key as it was (an
\* absent key gets the empty list); an allowed call stores the filtered list
\* with t appended.
checkRateLimit(rateLimiterMap, key, maxRequests, windowMs, t) ==
    LET windowStart == t - windowMs
        withKey == IF key \in DOMAIN rateLimiterMap THEN rateLimiterMap
                   ELSE [k \in DOMAIN rateLimiterMap \cup {key} |->
                           IF k = key THEN << >> ELSE rateLimiterMap[k]]
        requests == withKey[key]
        validRequests == SelectSeq(requests, LAMBDA time : time > windowStart)
    IN  IF LimitReached(validRequests, maxRequests)
        THEN [rateLimiter |-> withKey,
              answer |-> [allowed |-> FALSE, remaining |-> 0,
                          resetTime |-> ResetTime(validRequests, windowMs)]]
        ELSE [rateLimiter |-> [withKey EXCEPT ![key] = Append(validRequests, t)],
              answer |-> [allowed |-> TRUE,
                          remaining |-> maxRequests - (Len(validRequests) + 1),
                          resetTime |-> [time |-> t + windowMs]]]

\* maxRequests and windowMs of the calls (the defaults are 10 and 60000)
MaxRequests == 2
WindowMs == 2

\* the clock stops at MaxClock and a behaviour makes at most MaxCalls calls
MaxClock == 4
MaxCalls == 5

\* keys of the callers
RateKeys == { "client_a", "client_b" }

\* time passes: Date.now() never decreases
ClockAdvance ==
    /\ dateNow < MaxClock
    /\ dateNow' = dateNow + 1
    /\ UNCHANGED <<rateLimiter, rateLog>>
    /\ UNCHANGED <<serverVars, appVars, uploadVars, middlewareVars, featureVars, utilityVars>>

\* one call of checkRateLimit; rateLog keeps the key, the instant and the
\* answer of every call made
CheckRateLimitCall ==
    /\ Len(rateLog) < MaxCalls
    /\ \E key \in RateKeys :
          LET call == checkRateLimit(rateLimiter, key, MaxRequests, WindowMs, dateNow)
          IN  /\ rateLimiter' = call.rateLimiter
              /\ rateLog' = Append(rateLog, [key |-> key, now |-> dateNow,
                                             answer |-> call.answer])
    /\ UNCHANGED dateNow
    /\ UNCHANGED <<serverVars, appVars, uploadVars, middlewareVars, featureVars, utilityVars>>

InitRateLimit == TierIdle /\ PredictIdle /\ ClassifyIdle /\ ExportIdle /\ AppInit /\ ModulesIdle
NextRateLimit == ClockAdvance \/ CheckRateLimitCall
SpecRateLimit == InitRateLimit /\ [][NextRateLimit]_vars

-----------------------------------------------------------------------------
(* The sanitizers: sanitizeInput and sanitize.string.  Strings are          *)
(* sequences of one-character strings; the three regular expressions are   *)
(* modelled by what their global replace removes.                          *)

\* the literals the patterns look for, in lower case
JavascriptColon == <<"j", "a", "v", "a", "s", "c", "r", "i", "p", "t", ":">>
ScriptOpen      == <<"<", "s", "c", "r", "i", "p", "t">>
ScriptClose     == <<"<", "/", "s", "c", "r", "i", "p", "t", ">">>

\* \w: the letters, digits and underscore that occur in the model
IsWordChar(c) ==
    c \in { "a", "b", "c", "d", "e", "h", "i", "j", "k", "l", "n", "o", "p",
            "r", "s", "t", "v", "x", "y", "J", "S", "1", "_" }

\* \s
IsSpace(c) == c = " "

\* the literal (lower case) matches s at position i in any letter case: the
\* i flag
MatchAt(s, i, literal) ==
    /\ i + Len(literal) - 1 <= Len(s)
    /\ ToLowerCase(SubSeq(s, i, i + Len(literal) - 1)) = literal

\* the number of characters from position i on that are word characters
\* (class "w") or white space (class "s")
RunLength(s, i, class) ==
    LET in(c) == IF class = "w" THEN IsWordChar(c) ELSE IsSpace(c)
        stops == { j \in i..Len(s) : ~ in(s[j]) }
    IN  IF i > Len(s) THEN 0
        ELSE IF stops = {} THEN Len(s) - i + 1
        ELSE Min(stops) - i

\* the length of the match of /javascript:/i at position i, 0 for no match
JavascriptMatch(s, i) ==
    IF MatchAt(s, i, JavascriptColon) THEN Len(JavascriptColon) ELSE 0

\* the length of the match of /on\w+\s*=/i at position i, 0 for no match:
\* "on", the longest run of word characters (one at least; giving back
\* characters of the run cannot help, the next one being a word character),
\* any white space, "="
EventHandlerMatch(s, i) ==
    IF ~ MatchAt(s, i, <<"o", "n">>) THEN 0
    ELSE LET word   == RunLength(s, i + 2, "w")
             spaces == RunLength(s, i + 2 + word, "s")
             eq     == i + 2 + word + spaces
         IN  IF word >= 1 /\ eq <= Len(s) /\ s[eq] = "=" THEN eq - i + 1 ELSE 0

\* the length of the match of
\* /<script\b[^<]*(?:(?!<\/script>)<[^<]*)*<\/script>/i at position i, 0 for
\* no match: "<script" at a word boundary, then everything up to and
\* including the first "</script>" (the loop cannot step over one)
ScriptMatch(s, i) ==
    IF ~ MatchAt(s, i, ScriptOpen) THEN 0
    ELSE IF i + 7 <= Len(s) /\ IsWordChar(s[i + 7]) THEN 0
    ELSE LET closes == { j \in (i + 7)..Len(s) : MatchAt(s, j, ScriptClose) }
         IN  IF closes = {} THEN 0
             ELSE Min(closes) + Len(ScriptClose) - i

\* the length of the match at position i of the pattern named
MatchLength(pattern, s, i) ==
    CASE pattern = "script"       -> ScriptMatch(s, i)
      [] pattern = "javascript:"  -> JavascriptMatch(s, i)
      [] pattern = "eventHandler" -> EventHandlerMatch(s, i)

\* s.replace(pattern, '') with the g flag, from position i on: the matches
\* are looked for from left to right in s itself, and what a removal leaves
\* side by side is not looked at again
RECURSIVE RemoveAllFrom(_, _, _)
RemoveAllFrom(s, i, pattern) ==
    IF i > Len(s) THEN << >>
    ELSE LET n == MatchLength(pattern, s, i)
         IN  IF n > 0 THEN RemoveAllFrom(s, i + n, pattern)
             ELSE << s[i] >> \o RemoveAllFrom(s, i + 1, pattern)

\* s.trim()
Trim(s) ==
    LET kept == { i \in 1..Len(s) : ~ IsSpace(s[i]) }
    IN  IF kept = {} THEN << >>
        ELSE SubSeq(s, Min(kept), CHOOSE i \in kept : \A j \in kept : j <= i)

\* sanitizeString of sanitizeInput: scripts, then javascript:, then event
\* handlers, then trim
sanitizeString(str) ==
    Trim(RemoveAllFrom(
             RemoveAllFrom(RemoveAllFrom(str, 1, "script"), 1, "javascript:"),
             1, "eventHandler"))

\* JSON values: [type |-> "string", chars], [type |-> "number", value],
\* [type |-> "array", items] and [type |-> "object", fields]
StringValue(chars) == [type |-> "string", chars |-> chars]

\* sanitizeObject of sanitizeInput: strings are sanitized, arrays and
\* objects are rebuilt from their sanitized members, the rest is returned
RECURSIVE sanitizeObject(_)
sanitizeObject(obj) ==
    IF obj.type = "string" THEN StringValue(sanitizeString(obj.chars))
    ELSE IF obj.type = "array"
    THEN [type |-> "array",
          items |-> [i \in 1..Len(obj.items) |-> sanitizeObject(obj.items[i])]]
    ELSE IF obj.type = "object"
    THEN [type |-> "object",
          fields |-> [k \in DOMAIN obj.fields |-> sanitizeObject(obj.fields[k])]]
    ELSE obj

\* sanitizeInput(req, res, next): the request with its body and its query
\* replaced when it has them; next is always called
sanitizeInput(req) ==
    [req |-> [k \in DOMAIN req |->
                 IF k \in {"body", "query"} THEN sanitizeObject(req[k]) ELSE req[k]],
     next |-> TRUE]

\* sanitize.string(input, options) for a string input: scripts, then event
\* handlers, then javascript:, then the cut to maxLength, then trim; an
\* option that is absent is undefined
sanitizeStringWith(input, options) ==
    LET off(name) == name \in DOMAIN options /\ options[name] = FALSE
        noScripts  == IF off("removeScripts") THEN input
                      ELSE RemoveAllFrom(input, 1, "script")
        noHandlers == IF off("removeEventHandlers") THEN noScripts
                      ELSE RemoveAllFrom(noScripts, 1, "eventHandler")
        noUrls     == IF off("removeJavaScriptUrls") THEN noHandlers
                      ELSE RemoveAllFrom(noHandlers, 1, "javascript:")
        cut        == IF "maxLength" \in DOMAIN options /\ options.maxLength # 0
                      THEN SubSeq(noUrls, 1, Min({options.maxLength, Len(noUrls)}))
                      ELSE noUrls
    IN  IF off("trim") THEN cut ELSE Trim(cut)

\* strings a client sends: harmless ones, javascript: in two letter cases,
\* javascript: wrapped around itself, around an event handler and around a
\* script element, event handlers, script elements
InputStrings ==
    { <<"h", "e", "l", "l", "o">>,
      <<"j", "a", "v", "a", "s", "c", "r", "i", "p", "t", ":", "a", "l", "e", "r", "t", "(", "1", ")">>,
      <<"J", "a", "v", "a", "S", "c", "r", "i", "p", "t", ":", "x">>,
      <<"j", "a", "v", "a", "j", "a", "v", "a", "s", "c", "r", "i", "p", "t", ":", "s", "c", "r", "i", "p", "t", ":", "x">>,
      <<"j", "a", "j", "a", "v", "a", "s", "c", "r", "i", "p", "t", ":", "v", "a", "s", "c", "r", "i", "p", "t", ":">>,
      <<"j", "a", "v", "a", "s", "c", "r", "i", "o", "n", "l", "o", "a", "d", "=", "p", "t", ":", "x">>,
      <<"j", "a", "v", "a", "<", "s", "c", "r", "i", "p", "t", ">", "x", "<", "/", "s", "c", "r", "i", "p", "t", ">", "s", "c", "r", "i", "p", "t", ":", "y">>,
      <<" ", "o", "n", "c", "l", "i", "c", "k", " ", "=", "x", " ">>,
      <<"<", "s", "c", "r", "i", "p", "t", ">", "x", "<", "/", "s", "c", "r", "i", "p", "t", ">", "o", "k">>,
      <<"<", "s", "c", "r", "i", "p", "t", ">", "a", "<", "b", "<", "/", "s", "c", "r", "i", "p", "t", ">", "c">>,
      <<"<", "s", "c", "r", "i", "p", "t", "s", ">", "x", "<", "/", "s", "c", "r", "i", "p", "t", ">">>,
      <<"j", "a", "v", "a", "s", "c", "r", "i", "p", "t">>,
      <<"o", "n", "=", "x">>,
      << >> }

\* values of req.body and req.query: a string, an object with a string and a
\* number, an array of strings inside an object
InputValues ==
    { StringValue(x) : x \in InputStrings }
    \cup { [type |-> "object",
            fields |-> [url |-> StringValue(x),
                        size |-> [type |-> "number", value |-> 3]]] :
           x \in InputStrings }
    \cup { [type |-> "object",
            fields |-> [tags |-> [type |-> "array",
                                  items |-> << StringValue(x),
                                               StringValue(<<"o", "k">>) >>]]] :
           x \in InputStrings }

\* requests reaching sanitizeInput: with a body, a query, or both
SanitizeRequests ==
    { [method |-> "POST", body |-> v] : v \in InputValues }
    \cup { [method |-> "GET", query |-> v] : v \in InputValues }
    \cup { [method |-> "POST", body |-> v, query |-> StringValue(x)] :
           v \in { StringValue(<<"o", "k">>) }, x \in InputStrings }
    \cup { [method |-> "GET"] }

\* options of sanitize.string: the default, and each step switched off or on
SanitizeOptions ==
    { << >>, [removeJavaScriptUrls |-> FALSE], [removeScripts |-> FALSE],
      [removeEventHandlers |-> FALSE], [trim |-> FALSE], [maxLength |-> 4] }

\* The sanitizers keep no state, so one call per behaviour covers every call.
SanitizeInputRequest ==
    /\ sanitized = None
    /\ \E req \in SanitizeRequests :
          sanitized' = [by |-> "sanitizeInput", input |-> req,
                        output |-> sanitizeInput(req)]
    /\ UNCHANGED <<serverVars, appVars, uploadVars, middlewareVars, featureVars,
                   rateVars, cacheVars, retryVars>>

SanitizeStringCall ==
    /\ sanitized = None
    /\ \E input \in InputStrings, options \in SanitizeOptions :
          sanitized' = [by |-> "sanitize.string",
                        input |-> [chars |-> input, options |-> options],
                        output |-> sanitizeStringWith(input, options)]
    /\ UNCHANGED <<serverVars, appVars, uploadVars, middlewareVars, featureVars,
                   rateVars, cacheVars, retryVars>>

InitSanitize == TierIdle /\ PredictIdle /\ ClassifyIdle /\ ExportIdle /\ AppInit /\ ModulesIdle
NextSanitize == SanitizeInputRequest \/ SanitizeStringCall
SpecSanitize == InitSanitize /\ [][NextSanitize]_vars

-----------------------------------------------------------------------------
(* MemoryCache.  The two Maps are functions from keys; timeouts is the set  *)
(* of setTimeout callbacks the runtime still holds, each with the instant  *)
(* it is due.  A callback runs at its due instant or later, never before.  *)
(* An object of the class is [cache, timers, timeouts].                    *)

\* Map.prototype.set
MapSet(map, key, value) ==
    [k \in DOMAIN map \cup {key} |-> IF k = key THEN value ELSE map[k]]

\* Map.prototype.delete
MapDelete(map, key) ==
    IF DOMAIN map \ {key} = {} THEN << >>
    ELSE [k \in DOMAIN map \ {key} |-> map[k]]

\* clearTimeout(id)
ClearTimeout(pending, id) == { t \in pending : t.id # id }

\* delete(key)
cacheDelete(c, key) ==
    [cache    |-> MapDelete(c.cache, key),
     timers   |-> MapDelete(c.timers, key),
     timeouts |-> IF key \in DOMAIN c.timers
                  THEN ClearTimeout(c.timeouts, c.timers[key])
                  ELSE c.timeouts]

\* set without the clearTimeout of the timer the key already has
cacheSetKeepingTimer(c, key, value, ttl, t, id) ==
    [cache    |-> MapSet(c.cache, key, [value |-> value, timestamp |-> t, ttl |-> ttl]),
     timers   |-> MapSet(c.timers, key, id),
     timeouts |-> c.timeouts \cup { [id |-> id, key |-> key, due |-> t + ttl] }]

\* set(key, value, ttl) when Date.now() reads t and setTimeout returns id
cacheSet(c, key, value, ttl, t, id) ==
    LET cleared == IF key \in DOMAIN c.timers
                   THEN ClearTimeout(c.timeouts, c.timers[key])
                   ELSE c.timeouts
    IN  [cache    |-> MapSet(c.cache, key,
                             [value |-> value, timestamp |-> t, ttl |-> ttl]),
         timers   |-> MapSet(c.timers, key, id),
         timeouts |-> cleared \cup { [id |-> id, key |-> key, due |-> t + ttl] }]

\* get without the test of the age of the item
cacheGetUnchecked(c, key, t) ==
    IF key \notin DOMAIN c.cache
    THEN [object |-> c, returned |-> [null |-> TRUE]]
    ELSE [object |-> c, returned |-> [value |-> c.cache[key].value]]

\* get(key) when Date.now() reads t: [object, returned], the object after
\* the call and what the call returned
cacheGet(c, key, t) ==
    IF key \notin DOMAIN c.cache
    THEN [object |-> c, returned |-> [null |-> TRUE]]
    ELSE IF t - c.cache[key].timestamp > c.cache[key].ttl
    THEN [object |-> cacheDelete(c, key), returned |-> [null |-> TRUE]]
    ELSE [object |-> c, returned |-> [value |-> c.cache[key].value]]

\* clear()
cacheClear(c) == [cache |-> << >>, timers |-> << >>,
                  timeouts |-> { t \in c.timeouts :
                                   \A k \in DOMAIN c.timers : c.timers[k] # t.id }]

\* cleanup() when Date.now() reads t: delete(key) for every expired item
cacheCleanup(c, t) ==
    LET expired == { k \in DOMAIN c.cache :
                       t - c.cache[k].timestamp > c.cache[k].ttl }
        kept    == DOMAIN c.cache \ expired
    IN  [cache    |-> IF kept = {} THEN << >> ELSE [k \in kept |-> c.cache[k]],
         timers   |-> IF DOMAIN c.timers \ expired = {} THEN << >>
                      ELSE [k \in DOMAIN c.timers \ expired |-> c.timers[k]],
         timeouts |-> { t2 \in c.timeouts :
                          \A k \in expired \cap DOMAIN c.timers : c.timers[k] # t2.id }]

\* the object the variables hold
memoryCache == [cache |-> cache, timers |-> timers, timeouts |-> timeouts]

\* a behaviour makes at most MaxCacheCalls calls on the cache
MaxCacheCalls == 3

CacheKeys == { "k1", "k2" }

\* ttl of a set, in ticks of the clock
CacheTtls == { 1, 2 }

\* the variables take the fields of the object c, and the log the call made;
\* latest is, for each key, the most recent set made on it
CacheBecomes(c, op, key, returned, latest) ==
    /\ cache' = c.cache
    /\ timers' = c.timers
    /\ timeouts' = c.timeouts
    /\ cacheLog' = [calls |-> cacheLog.calls + 1, op |-> op, key |-> key,
                    at |-> dateNow, returned |-> returned, latest |-> latest]

\* set(key, value, ttl): the value is numbered by the call that sets it, so
\* that no two sets store the same value
CacheSetCall ==
    /\ cacheLog.calls < MaxCacheCalls
    /\ \E key \in CacheKeys, ttl \in CacheTtls :
          LET value == cacheLog.calls + 1
              before == IF key \in DOMAIN cacheLog.latest
                        THEN << cacheLog.latest[key].at + cacheLog.latest[key].ttl >>
                        ELSE << >>
          IN  CacheBecomes(cacheSet(memoryCache, key, value, ttl, dateNow,
                                    cacheLog.calls + 1),
                           "set", key, None,
                           MapSet(cacheLog.latest, key,
                                  [value |-> value, at |-> dateNow, ttl |-> ttl,
                                   intact |-> TRUE, earlierDue |-> before]))
    /\ UNCHANGED dateNow
    /\ UNCHANGED <<serverVars, appVars, uploadVars, middlewareVars, featureVars,
                   rateLimiter, rateLog, sanitizeVars, retryVars>>

CacheGetCall ==
    /\ cacheLog.calls < MaxCacheCalls
    /\ \E key \in CacheKeys :
          LET got == cacheGet(memoryCache, key, dateNow)
          IN  CacheBecomes(got.object, "get", key, got.returned, cacheLog.latest)
    /\ UNCHANGED dateNow
    /\ UNCHANGED <<serverVars, appVars, uploadVars, middlewareVars, featureVars,
                   rateLimiter, rateLog, sanitizeVars, retryVars>>

\* delete(key) called by a user of the cache
CacheDeleteCall ==
    /\ cacheLog.calls < MaxCacheCalls
    /\ \E key \in CacheKeys :
          CacheBecomes(cacheDelete(memoryCache, key), "delete", key, None,
                       [k \in DOMAIN cacheLog.latest |->
                           IF k = key
                           THEN [cacheLog.latest[k] EXCEPT !.intact = FALSE]
                           ELSE cacheLog.latest[k]])
    /\ UNCHANGED dateNow
    /\ UNCHANGED <<serverVars, appVars, uploadVars, middlewareVars, featureVars,
                   rateLimiter, rateLog, sanitizeVars, retryVars>>

CacheClearCall ==
    /\ cacheLog.calls < MaxCacheCalls
    /\ CacheBecomes(cacheClear(memoryCache), "clear", "", None,
                    [k \in DOMAIN cacheLog.latest |->
                        [cacheLog.latest[k] EXCEPT !.intact = FALSE]])
    /\ UNCHANGED dateNow
    /\ UNCHANGED <<serverVars, appVars, uploadVars, middlewareVars, featureVars,
                   rateLimiter, rateLog, sanitizeVars, retryVars>>

\* cleanup(), which the module also runs on an interval
CacheCleanupCall ==
    /\ cacheLog.calls < MaxCacheCalls
    /\ CacheBecomes(cacheCleanup(memoryCache, dateNow), "cleanup", "", None,
                    cacheLog.latest)
    /\ UNCHANGED dateNow
    /\ UNCHANGED <<serverVars, appVars, uploadVars, middlewareVars, featureVars,
                   rateLimiter, rateLog, sanitizeVars, retryVars>>

\* the callback of a timeout that is due: () => this.delete(key)
CacheTimerFires ==
    /\ \E t \in timeouts :
          /\ t.due <= dateNow
          /\ LET c == cacheDelete([cache |-> cache, timers |-> timers,
                                   timeouts |-> timeouts \ {t}], t.key)
             IN  /\ cache' = c.cache
                 /\ timers' = c.timers
                 /\ timeouts' = c.timeouts
    /\ UNCHANGED <<cacheLog, dateNow>>
    /\ UNCHANGED <<serverVars, appVars, uploadVars, middlewareVars, featureVars,
                   rateLimiter, rateLog, sanitizeVars, retryVars>>

InitCache == TierIdle /\ PredictIdle /\ ClassifyIdle /\ ExportIdle /\ AppInit /\ ModulesIdle
NextCache ==
    \/ ClockAdvance
    \/ CacheSetCall
    \/ CacheGetCall
    \/ CacheDeleteCall
    \/ CacheClearCall
    \/ CacheCleanupCall
    \/ CacheTimerFires
SpecCache == InitCache /\ [][NextCache]_vars

-----------------------------------------------------------------------------
(* withRetry.  retry holds the call in progress: its arguments, the loop   *)
(* counter i, where the call stands (at), every invocation of fn with its  *)
(* outcome, every delay handed to setTimeout, and how the call settled.    *)
(* fn terminates: an invocation and its outcome are one step.              *)

\* delay * Math.pow(2, i)
backoff(delay, i) == delay * 2 ^ i

\* the catch block without the throw on the last attempt
afterFailureAlwaysWaiting(r, lastError) ==
    [r EXCEPT !.at = "waiting",
              !.waits = Append(@, backoff(r.delay, r.i))]

\* the catch block with lastError set: throw on the last attempt or wait
afterFailure(r, lastError) ==
    IF r.i = r.maxRetries
    THEN [r EXCEPT !.at = "done", !.settled = [thrown |-> lastError]]
    ELSE [r EXCEPT !.at = "waiting",
                   !.waits = Append(@, backoff(r.delay, r.i))]

\* i++ and the loop test i <= maxRetries; a loop that ends returns undefined
afterWait(r) ==
    IF r.i + 1 <= r.maxRetries
    THEN [r EXCEPT !.i = @ + 1, !.at = "invoke"]
    ELSE [r EXCEPT !.i = @ + 1, !.at = "done",
                   !.settled = [returned |-> [undefined |-> TRUE]]]

\* largest maxRetries a call is made with
MaxRetryBudget == 3

\* delay arguments, in milliseconds (1000 is the default)
RetryDelays == { 0, 1, 500, 1000 }

\* withRetry(fn, maxRetries, delay) is called: i = 0 and the loop is entered
WithRetryCall ==
    /\ retry = None
    /\ \E maxRetries \in 0..MaxRetryBudget, delay \in RetryDelays :
          retry' = [maxRetries |-> maxRetries, delay |-> delay, i |-> 0,
                    at |-> "invoke", invocations |-> << >>, waits |-> << >>,
                    settled |-> None]
    /\ UNCHANGED <<serverVars, appVars, uploadVars, middlewareVars, featureVars,
                   rateVars, sanitizeVars, cacheVars>>

\* await fn(): the n-th invocation resolves with value n or rejects with
\* error n
WithRetryInvoke ==
    /\ retry # None
    /\ retry.at = "invoke"
    /\ LET n == Len(retry.invocations) + 1
       IN  \/ retry' = [retry EXCEPT
                          !.invocations = Append(@, [ok |-> TRUE, value |-> n]),
                          !.at = "done",
                          !.settled = [returned |-> [value |-> n]]]
           \/ retry' = afterFailure(
                          [retry EXCEPT !.invocations =
                                           Append(@, [ok |-> FALSE, error |-> n])],
                          n)
    /\ UNCHANGED <<serverVars, appVars, uploadVars, middlewareVars, featureVars,
                   rateVars, sanitizeVars, cacheVars>>

\* the timeout of the wait runs resolve and the loop goes on
WithRetryTimeout ==
    /\ retry # None
    /\ retry.at = "waiting"
    /\ retry' = afterWait(retry)
    /\ UNCHANGED <<serverVars, appVars, uploadVars, middlewareVars, featureVars,
                   rateVars, sanitizeVars, cacheVars>>

InitRetry == TierIdle /\ PredictIdle /\ ClassifyIdle /\ ExportIdle /\ AppInit /\ ModulesIdle
NextRetry ==
    \/ WithRetryCall
    \/ WithRetryInvoke
    \/ WithRetryTimeout

\* the runtime runs a pending invocation and a pending timeout
SpecRetry == InitRetry /\ [][NextRetry]_vars /\ WF_vars(WithRetryInvoke)
                 /\ WF_vars(WithRetryTimeout)

-----------------------------------------------------------------------------
(* Claims on the tier scan and on predict *)

ClaimedLabel(f) ==
    IF f.ndvi > 800 /\ f.evi > 900 THEN Foret
    ELSE IF f.ndvi > 800 /\ f.evi <= 900 THEN PalmierAHuile
    ELSE IF f.ndvi > 600 /\ f.ndvi <= 800 /\ f.savi > 700 THEN PalmierAHuile
    ELSE Cacao

\* C2: the label predict returns is a function of (ndvi, evi, savi) alone,
\* the one the claim tabulates, whatever the random draws.
LabelIsFunctionOfIndices ==
    outcome # None => outcome.predicted_class = ClaimedLabel(features)

\* predict has labelled a dense-vegetation vector whose evi sits on the 0.9
\* boundary
LabelBoundaryWitness ==
    /\ outcome # None
    /\ features.ndvi = 801
    /\ features.evi = 900
    /\ outcome.predicted_class = PalmierAHuile

\* C3: every feature vector with ndvi > 0.8 and evi > 0.9 is labelled Foret
\* with a confidence_level of 4 or 5, whatever the random draws.
ForestHasHighLevel ==
    (outcome # None /\ features.ndvi > 800 /\ features.evi > 900) =>
        /\ outcome.predicted_class = Foret
        /\ outcome.confidence_level \in {4, 5}

\* the scenario of the specification: ndvi 0.85, evi 0.95, savi 0.8
ForestScenarioWitness ==
    /\ outcome # None
    /\ features.ndvi = 850 /\ features.evi = 950 /\ features.savi = 800
    /\ outcome.predicted_class = Foret
    /\ outcome.confidence_level = 5

\* C4: in every outcome of predict the probability listed for the predicted
\* class equals the reported confidence.
ProbabilityOfLabelIsConfidence ==
    outcome # None =>
        outcome.probabilities[outcome.predicted_class]
            = MilliToMicro(outcome.confidence)

-----------------------------------------------------------------------------
(* Claims on the export and classify handlers *)

\* the calls of a response that end it (json or send)
Answers(writes) == SelectSeq(writes, LAMBDA w : w.op \in {"json", "send"})

\* the headers a response sets
HeadersSet(writes) == SelectSeq(writes, LAMBDA w : w.op = "setHeader")

\* a response that is one error and nothing else: no header, no artifact
IsErrorOnly(writes) ==
    /\ Len(writes) = 1
    /\ writes[1].op = "json"
    /\ writes[1].status >= 400
    /\ "error" \in DOMAIN writes[1].body

\* the request carries no results, a results value that is no array, or an
\* empty array
HasEmptyResults(req) ==
    \/ "body" \notin DOMAIN req
    \/ "results" \notin DOMAIN req.body
    \/ req.body.results.type # "array"
    \/ req.body.results.items = << >>

\* C5: an export request whose results are empty, missing or not an array is
\* answered with an error for every format, supported or not, and produces
\* no artifact.
EmptyExportFails ==
    (exportReq # None /\ HasEmptyResults(exportReq)) =>
        /\ IsErrorOnly(exportRes)
        /\ "body" \in DOMAIN exportReq =>
               LET verdict == exportParamsValidate(exportReq.body)
               IN  /\ ~ verdict.isValid
                   /\ verdict.errors[Len(verdict.errors)] = "Aucun resultat a exporter"

\* an empty array was exported as csv and refused with 400
EmptyExportWitness ==
    /\ exportReq # None
    /\ exportReq.method = "POST"
    /\ "body" \in DOMAIN exportReq
    /\ DOMAIN exportReq.body = {"format", "results"}
    /\ exportReq.body.format = "csv"
    /\ exportReq.body.results = [type |-> "array", items |-> << >>]
    /\ exportRes = << Json(400, [error |-> "Donnees de resultats requises"]) >>

\* C6: a POST export request with a non-empty results array and a format
\* outside {csv, geojson, pdf}, or no format, is answered 400 with the
\* message that lists csv, geojson and pdf, and sets no download header.
UnsupportedFormatFails ==
    (/\ exportReq # None
     /\ exportReq.method = "POST"
     /\ ~ HasEmptyResults(exportReq)
     /\ \/ "format" \notin DOMAIN exportReq.body
        \/ exportReq.body.format \notin {"csv", "geojson", "pdf"})
    => /\ exportRes = << Json(400, [error |->
                  "Format non supporte. Utilisez: csv, geojson, ou pdf"]) >>
       /\ HeadersSet(exportRes) = << >>
       /\ exportParamsValidate(exportReq.body) =
              [isValid |-> FALSE,
               errors  |-> << "Format invalide. Formats autorises: csv, geojson, pdf" >>]

\* results were exported as xml
UnsupportedFormatWitness ==
    /\ exportReq # None
    /\ exportReq.method = "POST"
    /\ ~ HasEmptyResults(exportReq)
    /\ "format" \in DOMAIN exportReq.body
    /\ exportReq.body.format = "xml"
    /\ Len(exportReq.body.results.items) = MaxResults
    /\ IsErrorOnly(exportRes)

\* String.prototype.split(sep): the pieces of the text between its
\* separators, in order (one more piece than there are separators)
Split(text, sep) ==
    LET at == { i \in 1..Len(text) : text[i] = sep }
        position(k) ==
            IF k = 0 THEN 0
            ELSE IF k > Cardinality(at) THEN Len(text) + 1
            ELSE CHOOSE i \in at : Cardinality({ j \in at : j < i }) = k - 1
    IN  [k \in 1..(Cardinality(at) + 1) |->
            SubSeq(text, position(k - 1) + 1, position(k) - 1)]

RECURSIVE DigitsToNat(_)
\* the natural number a sequence of digits writes
DigitsToNat(digits) ==
    IF digits = << >> THEN 0
    ELSE DigitsToNat(SubSeq(digits, 1, Len(digits) - 1)) * 10
         + (CHOOSE d \in 0..9 : Digit[d + 1] = digits[Len(digits)])

RECURSIVE Pow10(_)
Pow10(n) == IF n = 0 THEN 1 ELSE 10 * Pow10(n - 1)

\* the micro value a decimal numeral writes: [-]digits[.digits]
ParseNumber(text) ==
    LET negative == text[1] = "-"
        unsigned == IF negative THEN Tail(text) ELSE text
        parts    == Split(unsigned, ".")
        whole    == DigitsToNat(parts[1]) * Micro
        fraction == IF Len(parts) = 1 THEN 0
                    ELSE DigitsToNat(parts[2]) * Pow10(6 - Len(parts[2]))
    IN  IF negative THEN - (whole + fraction) ELSE whole + fraction

\* the data rows of a CSV text, each split into its fields: the text is split
\* at the newlines, the header line and the empty piece after the last
\* newline are dropped
ParseCSV(text) ==
    LET lines == Split(text, "\n")
    IN  [i \in 1..(Len(lines) - 2) |-> Split(lines[i + 1], ",")]

\* a parsed coordinate cell: nothing for an empty cell, else its number
ParsedCell(field) == IF field = << >> THEN << >> ELSE << ParseNumber(field) >>

\* the coordinate of a source result: nothing when it has no coordinates
SourceCoordinate(result, axis) ==
    IF "coordinates" \in DOMAIN result
    THEN << MilliToMicro(result.coordinates[axis]) >>
    ELSE << >>

\* the handler answered a download of the given kind
Downloaded(writes, kind) ==
    /\ Len(writes) > 0
    /\ writes[Len(writes)].op = "send"
    /\ kind \in DOMAIN writes[Len(writes)].body

\* C7: parsing back the CSV made from N results gives N data rows, with IDs
\* 1..N in input order, whose predicted class, NDVI, latitude and longitude
\* equal those of the source results, latitude 0 and longitude 0 included.
CSVRoundTrip ==
    (exportReq # None /\ Downloaded(exportRes, "csv")) =>
        LET results == exportReq.body.results.items
            rows    == ParseCSV(exportRes[Len(exportRes)].body.csv)
        IN  /\ Len(rows) = Len(results)
            /\ \A i \in 1..Len(results) :
                  /\ Len(rows[i]) = Len(CSVHeaders)
                  /\ ParseNumber(rows[i][1]) = i * Micro
                  /\ rows[i][2] = Quoted(results[i].prediction.predicted_class)
                  /\ ParseNumber(rows[i][6]) = MilliToMicro(results[i].features.ndvi)
                  /\ ParsedCell(rows[i][10]) = SourceCoordinate(results[i], "lat")
                  /\ ParsedCell(rows[i][11]) = SourceCoordinate(results[i], "lng")

\* C8: generateGeoJSON of N results is a FeatureCollection of exactly N
\* Features, in input order with ids 1..N, each a Point whose coordinates
\* array has the 2 elements [lng, lat], and is [0, 0] for a result without
\* coordinates.
GeoJSONIsFeatureCollection ==
    (exportReq # None /\ Downloaded(exportRes, "geojson")) =>
        LET results    == exportReq.body.results.items
            collection == exportRes[Len(exportRes)].body.geojson
        IN  /\ collection.type = "FeatureCollection"
            /\ Len(collection.features) = Len(results)
            /\ \A i \in 1..Len(results) :
                  LET feature == collection.features[i]
                  IN  /\ feature.type = "Feature"
                      /\ feature.properties.id = i
                      /\ feature.properties.culture_predite
                            = results[i].prediction.predicted_class
                      /\ feature.properties.ndvi = results[i].features.ndvi
                      /\ feature.geometry.type = "Point"
                      /\ Len(feature.geometry.coordinates) = 2
                      /\ feature.geometry.coordinates =
                            IF "coordinates" \in DOMAIN results[i]
                            THEN << results[i].coordinates.lng,
                                    results[i].coordinates.lat >>
                            ELSE << 0, 0 >>

\* a result with coordinates and one without were exported as geojson, in
\* that order
GeoJSONWitness ==
    /\ exportReq # None
    /\ Downloaded(exportRes, "geojson")
    /\ Len(exportReq.body.results.items) = 2
    /\ "coordinates" \in DOMAIN exportReq.body.results.items[1]
    /\ exportReq.body.results.items[1].coordinates = [lat |-> 5500, lng |-> -4250]
    /\ "coordinates" \notin DOMAIN exportReq.body.results.items[2]
    /\ exportRes[Len(exportRes)].body.geojson.features[1].geometry.coordinates
          = << -4250, 5500 >>
    /\ exportRes[Len(exportRes)].body.geojson.features[2].geometry.coordinates
          = << 0, 0 >>

\* the three parts of a successful classification
ResultParts == {"features", "prediction", "metadata"}

\* C10: every request to the classify handler ends with exactly one
\* response, either a 200 that carries features, prediction and metadata
\* together or an error that carries none of them; every request to the
\* export handler ends with exactly one response, either one artifact with
\* its download headers or an error with no artifact and no header.
NoPartialResults ==
    /\ classifyReq # None =>
          /\ Len(classifyRes) = 1
          /\ classifyRes[1].op = "json"
          /\ \/ /\ classifyRes[1].status = 200
                /\ ResultParts \subseteq DOMAIN classifyRes[1].body
                /\ classifyRes[1].body.success
             \/ /\ classifyRes[1].status >= 400
                /\ "error" \in DOMAIN classifyRes[1].body
                /\ ResultParts \cap DOMAIN classifyRes[1].body = {}
    /\ exportReq # None =>
          /\ Len(Answers(exportRes)) = 1
          /\ \/ IsErrorOnly(exportRes)
             \/ /\ exportRes[Len(exportRes)].op = "send"
                /\ exportRes[Len(exportRes)].status = 200
                /\ DOMAIN exportRes[Len(exportRes)].body
                      \in { {"csv"}, {"geojson"}, {"html"} }
                /\ Len(HeadersSet(exportRes)) = Len(exportRes) - 1
                /\ { exportRes[i].name : i \in 1..(Len(exportRes) - 1) }
                      = { "Content-Type", "Content-Disposition", "Cache-Control" }

\* the image was removed between the handler's test and classify's own: the
\* classification failed after the request had passed every check
FailedClassifyWitness ==
    /\ classifyReq # None
    /\ classifyReq.method = "POST"
    /\ classifyRes = << Json(500, [error |-> "Fichier image non trouve"]) >>

-----------------------------------------------------------------------------
(* Claims on the session *)

\* the number of entries of a downloaded artifact
ArtifactEntries(blob) ==
    IF "csv" \in DOMAIN blob THEN Len(ParseCSV(blob.csv))
    ELSE IF "geojson" \in DOMAIN blob THEN Len(blob.geojson.features)
    ELSE Len(blob.html.rows)

\* C9: after one or more successful classifications, exporting the list
\* accumulated in allResults as csv, geojson or pdf succeeds with a download
\* that has one entry per accumulated result, not with an error.
SessionExportSucceeds ==
    (lastExport # None /\ Len(lastExport.results) > 0) =>
        /\ lastExport.downloaded
        /\ ArtifactEntries(lastExport.blob) = Len(lastExport.results)

-----------------------------------------------------------------------------
(* Claims on the upload endpoint and on validateFileMiddleware *)

\* the name ends, in any letter case, with one of the allowed extensions
HasAllowedExtension(name) ==
    \E i \in 1..Len(allowedExtensions) :
        EndsWith(ToLowerCase(name), allowedExtensions[i])

\* C11: the upload handler answers 200 only for a file whose MIME type is
\* allowed, whose extension is allowed and whose size is at most 10 MiB.
UploadAcceptsOnlyValidFiles ==
    (uploadReq # None /\ \E i \in 1..Len(uploadRes) : uploadRes[i].status = 200) =>
        /\ "file" \in DOMAIN uploadReq
        /\ uploadReq.file.mimetype \in allowedTypes
        /\ HasAllowedExtension(uploadReq.file.originalFilename)
        /\ uploadReq.file.size <= maxFileSize

\* C12: validateFileMiddleware calls next, writing nothing, for every file of
\* an allowed MIME type, at most 10 MiB, whose name ends in any letter case
\* with one of the allowed extensions; and it answers 400, without calling
\* next, for every file whose name ends with none of them.
MiddlewarePassesAllowedFiles ==
    (middlewareReq # None /\ "file" \in DOMAIN middlewareReq) =>
        /\ ( /\ middlewareReq.file.mimetype \in allowedTypes
             /\ middlewareReq.file.size <= maxFileSize
             /\ HasAllowedExtension(middlewareReq.file.originalname) )
           => (middlewareRes.next /\ middlewareRes.writes = << >>)
        /\ (~ HasAllowedExtension(middlewareReq.file.originalname))
           => ( /\ ~ middlewareRes.next
                /\ Len(middlewareRes.writes) = 1
                /\ middlewareRes.writes[1].status = 400 )

-----------------------------------------------------------------------------
(* Claims on the coordinates of a classification *)

\* C13: every 200 answer of the classify handler that carries coordinates
\* carries a latitude in [-90, 90] and a longitude in [-180, 180].
ResultCoordinatesInRange ==
    \A i \in 1..Len(classifyRes) :
        (classifyRes[i].status = 200 /\ "coordinates" \in DOMAIN classifyRes[i].body) =>
            coordinatesValidate(classifyRes[i].body.coordinates).isValid

-----------------------------------------------------------------------------
(* Claims on extractFeatures *)

\* C14: every feature vector extractFeatures returns has its ndvi, its evi
\* and its savi within [-1, 1], whatever the draw of the NDVI.
ExtractedIndicesInRange ==
    extracted # None =>
        /\ extracted.features.ndvi \in -1000..1000
        /\ extracted.features.evi \in -1000..1000
        /\ extracted.features.savi \in -1000..1000

-----------------------------------------------------------------------------
(* Claims on the confidence of predict *)

\* the band (milli) the claim gives to the branch a feature vector takes
ClaimedBand(f) ==
    IF f.ndvi > 800 /\ f.evi > 900 THEN [lo |-> 850, hi |-> 950]
    ELSE IF f.ndvi > 800 THEN [lo |-> 750, hi |-> 900]
    ELSE IF f.ndvi > 600 /\ f.savi > 700 THEN [lo |-> 700, hi |-> 900]
    ELSE IF f.ndvi > 600 THEN [lo |-> 650, hi |-> 900]
    ELSE [lo |-> 450, hi |-> 750]

\* C15: for every feature vector and every draw, the confidence predict
\* returns lies inside the band of the branch taken, hence in [0, 1].
ConfidenceWithinBranchBand ==
    outcome # None =>
        /\ outcome.confidence >= ClaimedBand(features).lo
        /\ outcome.confidence <= ClaimedBand(features).hi
        /\ outcome.confidence \in 0..1000

\* the sparse branch with the largest draw: the returned confidence rounds
\* up to the top of its band
SparseBandEdgeWitness ==
    /\ outcome # None
    /\ features.ndvi <= 600
    /\ outcome.predicted_class = Cacao
    /\ outcome.confidence = 750

-----------------------------------------------------------------------------
(* Claims on the errors of the tier lookup and of predict *)

\* the lookup returned a row of the table
TierReturned == \E i \in 1..Len(confidenceLevels) : tierOut = confidenceLevels[i]

InDeclaredDomain(f) ==
    /\ f.ndvi \in -1000..1000 /\ f.evi \in -1000..1000 /\ f.savi \in -1000..1000
    /\ f.mean_red >= 0 /\ f.mean_nir >= 0 /\ f.std_red >= 0 /\ f.std_nir >= 0
    /\ f.area_ha > 0

\* C17: predict returns no outcome for a feature vector that is outside its
\* declared domain.
InvalidFeaturesRejected ==
    (outcome # None /\ ~ InDeclaredDomain(features)) =>
        "predicted_class" \notin DOMAIN outcome

-----------------------------------------------------------------------------
(* Claims on the HTML report *)

\* the band the claim gives to a confidence (milli)
ClaimedReportBand(confidence) ==
    IF confidence > 700 THEN "confidence-high"
    ELSE IF confidence > 400 /\ confidence <= 700 THEN "confidence-medium"
    ELSE "confidence-low"

\* the sum of the per-label counts of a report
CountsTotal(cultureStats) ==
    LET count(c) == IF c \in DOMAIN cultureStats THEN cultureStats[c] ELSE 0
    IN  count(PalmierAHuile) + count(Cacao) + count(Foret)

\* C18: in the report every row's confidence cell is banded high above 0.7,
\* medium above 0.4 up to 0.7 and low up to 0.4; the per-label counts sum to
\* the number of results and the number of labels counted is the number of
\* different predicted classes of the list.
ReportBandsAndCounts ==
    (exportReq # None /\ Downloaded(exportRes, "html")) =>
        LET results == exportReq.body.results.items
            report  == exportRes[Len(exportRes)].body.html
        IN  /\ Len(report.rows) = Len(results)
            /\ \A i \in 1..Len(results) :
                  report.rows[i].band =
                      ClaimedReportBand(results[i].prediction.confidence)
            /\ DOMAIN report.cultureStats \subseteq {PalmierAHuile, Cacao, Foret}
            /\ CountsTotal(report.cultureStats) = Len(results)
            /\ report.cultureCount =
                  Cardinality({ results[i].prediction.predicted_class :
                                  i \in 1..Len(results) })

\* a report of two results of different classes, the first with a
\* confidence of exactly 0.7, banded medium
ReportBoundaryWitness ==
    /\ exportReq # None
    /\ Downloaded(exportRes, "html")
    /\ Len(exportReq.body.results.items) = 2
    /\ exportReq.body.results.items[1].prediction.confidence = 700
    /\ exportRes[Len(exportRes)].body.html.rows[1].band = "confidence-medium"
    /\ exportRes[Len(exportRes)].body.html.cultureCount = 2

-----------------------------------------------------------------------------
(* Claims on the list of results of the session *)

\* C19: allResults is append-only.  The step in which a handleClassify ends
\* without raising an error appends exactly one record, the one it shows, at
\* the end of the list; every other step (a failed classification, an
\* export, a file selection, an error shown or cleared, a progress tick)
\* leaves the list as it was.
AllResultsAppendOnly ==
    [][ IF classifying # None /\ classifying' = None /\ errorTimers' = errorTimers
        THEN /\ Len(allResults') = Len(allResults) + 1
             /\ SubSeq(allResults', 1, Len(allResults)) = allResults
             /\ allResults'[Len(allResults')] = shownResult'
        ELSE allResults' = allResults ]_vars

\* a session with two classifications, one successful and one failed, and an
\* export after them: the list holds the one record
OneKeptAfterFailureWitness ==
    /\ started = 2
    /\ classifying = None
    /\ Len(allResults) = 1
    /\ error # None
    /\ lastExport # None
    /\ lastExport.results = allResults

\* C28: whenever no classification is in progress, no progress interval is
\* running and processingProgress is 0, so that no interval callback changes
\* the progress before the next classification starts.
ProgressRestsBetweenClassifications ==
    (~ isProcessing /\ classifying = None) =>
        /\ intervals = {}
        /\ processingProgress = 0

\* C29: the callback of an error timer never clears an error that has been
\* on display for less than the 5 seconds of the timer; the other steps that
\* take an error off the display are a newer error, a file selection and a
\* classification start.
ErrorShownForFullDelay ==
    [][ (error # None /\ Len(errorTimers') < Len(errorTimers))
            => errorAge >= ErrorDelay ]_vars

-----------------------------------------------------------------------------
(* Claims on checkRateLimit *)

\* the calls on key answered allowed:true, among the first n calls, at an
\* instant in (from, to]
AllowedIn(key, n, from, to) ==
    { i \in 1..n : /\ rateLog[i].key = key
                   /\ rateLog[i].answer.allowed
                   /\ rateLog[i].now > from
                   /\ rateLog[i].now <= to }

\* C20: for every key and every instant t, at most maxRequests calls on the
\* key were answered allowed:true within (t - windowMs, t]; the answer to a
\* call depends only on the allowed calls made before it on the same key
\* within the window (refused calls and calls on other keys do not count);
\* and the Map holds, for each key, only instants of allowed calls on it.
SlidingWindowLimit ==
    /\ \A key \in RateKeys, t \in 0..MaxClock :
          Cardinality(AllowedIn(key, Len(rateLog), t - WindowMs, t)) <= MaxRequests
    /\ \A i \in 1..Len(rateLog) :
          rateLog[i].answer.allowed <=>
              Cardinality(AllowedIn(rateLog[i].key, i - 1,
                                    rateLog[i].now - WindowMs, rateLog[i].now))
                  < MaxRequests
    /\ \A key \in DOMAIN rateLimiter :
          /\ Len(rateLimiter[key])
                <= Cardinality(AllowedIn(key, Len(rateLog), -1, MaxClock))
          /\ \A j \in 1..Len(rateLimiter[key]) :
                \E i \in AllowedIn(key, Len(rateLog), -1, MaxClock) :
                    rateLog[i].now = rateLimiter[key][j]

\* a key was refused while another key was allowed at the same instant, and
\* was allowed again once its window had passed
RefusedThenAllowedWitness ==
    \E i, j, m \in 1..Len(rateLog) :
        /\ i < j
        /\ rateLog[i].key = rateLog[j].key
        /\ ~ rateLog[i].answer.allowed
        /\ rateLog[j].answer.allowed
        /\ rateLog[m].key # rateLog[i].key
        /\ rateLog[m].now = rateLog[i].now
        /\ rateLog[m].answer.allowed
        /\ m > i

\* the j-th call is the next call after the i-th on the same key
NextCallOnKey(i, j) ==
    /\ i < j
    /\ rateLog[i].key = rateLog[j].key
    /\ \A m \in (i + 1)..(j - 1) : rateLog[m].key # rateLog[i].key

\* C27: a call refused at instant t answers a resetTime T > t, and the next
\* call on the same key, when made at T or later, is answered allowed:true.
RefusedKeyRecoversAtResetTime ==
    \A i \in 1..Len(rateLog) :
        (~ rateLog[i].answer.allowed /\ "time" \in DOMAIN rateLog[i].answer.resetTime) =>
            /\ rateLog[i].answer.resetTime.time > rateLog[i].now
            /\ \A j \in 1..Len(rateLog) :
                   (NextCallOnKey(i, j) /\ rateLog[j].now >= rateLog[i].answer.resetTime.time)
                       => rateLog[j].answer.allowed

\* a refused call was followed, on its key, by a call made exactly at the
\* resetTime it had answered, which was allowed, while the other key was
\* called in between
RecoveryAtResetTimeWitness ==
    \E i, j \in 1..Len(rateLog) :
        /\ ~ rateLog[i].answer.allowed
        /\ "time" \in DOMAIN rateLog[i].answer.resetTime
        /\ NextCallOnKey(i, j)
        /\ j > i + 1
        /\ rateLog[j].now = rateLog[i].answer.resetTime.time
        /\ rateLog[j].answer.allowed

-----------------------------------------------------------------------------
(* Claims on the sanitizers *)

\* s holds "javascript:" in some letter case
HoldsJavascriptColon(s) == \E i \in 1..Len(s) : MatchAt(s, i, JavascriptColon)

\* the strings held anywhere in a JSON value
RECURSIVE StringsOf(_)
StringsOf(v) ==
    IF v.type = "string" THEN { v.chars }
    ELSE IF v.type = "array"
    THEN UNION { StringsOf(v.items[i]) : i \in 1..Len(v.items) }
    ELSE IF v.type = "object"
    THEN UNION { StringsOf(v.fields[k]) : k \in DOMAIN v.fields }
    ELSE {}

\* C21: after sanitizeInput no string of req.body or req.query holds
\* "javascript:" in any letter case, and neither does the string
\* sanitize.string returns with its default options.
NoJavascriptUrlLeft ==
    /\ (sanitized # None /\ sanitized.by = "sanitizeInput") =>
          \A k \in DOMAIN sanitized.output.req \cap {"body", "query"} :
              \A s \in StringsOf(sanitized.output.req[k]) : ~ HoldsJavascriptColon(s)
    /\ (sanitized # None /\ sanitized.by = "sanitize.string"
          /\ sanitized.input.options = << >>) =>
          ~ HoldsJavascriptColon(sanitized.output)

-----------------------------------------------------------------------------
(* Claims on the consistency of an outcome of predict *)

\* C22: in every outcome of predict, confidence_level is the level of the
\* highest tier whose threshold is at most the reported confidence (the one
\* rounded to 3 decimals): an outcome reporting 0.8 reports level 5.
LevelMatchesReportedConfidence ==
    outcome # None =>
        outcome.confidence_level
            = FindConfidenceLevel(MilliToMicro(outcome.confidence)).level

-----------------------------------------------------------------------------
(* Claims on the results the pipeline can produce *)

\* C23: every result classify produces has a confidence_level of 4 or 5, an
\* ndvi above 0.6 (the sparse-vegetation branch is never taken) and, when
\* its ndvi is above 0.8, the label Foret (the dense branch never answers
\* Palmier a huile).
PipelineReachesOnlyHighTiers ==
    (classified # None /\ classified.result.success) =>
        /\ classified.result.prediction.confidence_level \in {4, 5}
        /\ classified.result.features.ndvi > 600
        /\ classified.result.features.ndvi > 800 =>
              classified.result.prediction.predicted_class = Foret

\* the smallest ndvi above 0.8 was extracted and labelled Foret, with the
\* smallest confidence of that branch
PipelineForestWitness ==
    /\ classified # None
    /\ classified.result.success
    /\ classified.result.features.ndvi = 801
    /\ classified.result.prediction.predicted_class = Foret
    /\ classified.result.prediction.confidence = 850
    /\ classified.result.prediction.confidence_level = 5


(* Claims on MemoryCache *)

\* C24: the two Maps of the cache hold the same keys after every operation;
\* a get that returned a value returned the value of the most recent set on
\* its key, made no more than its ttl before the get; a get that returned
\* null left no entry, no timer and no pending timeout for its key.
GetNeverStale ==
    /\ DOMAIN cache = DOMAIN timers
    /\ cacheLog.op = "get" =>
          LET k == cacheLog.key
              r == cacheLog.returned
          IN  IF "value" \in DOMAIN r
              THEN /\ k \in DOMAIN cacheLog.latest
                   /\ r.value = cacheLog.latest[k].value
                   /\ cacheLog.at - cacheLog.latest[k].at <= cacheLog.latest[k].ttl
              ELSE /\ k \notin DOMAIN cache
                   /\ k \notin DOMAIN timers
                   /\ \A t \in timeouts : t.key # k

\* a get made after the ttl of the most recent set on its key, which no
\* delete or clear had removed, returned null
ExpiredGetWitness ==
    /\ cacheLog.op = "get"
    /\ cacheLog.key \in DOMAIN cacheLog.latest
    /\ cacheLog.latest[cacheLog.key].intact
    /\ cacheLog.at - cacheLog.latest[cacheLog.key].at > cacheLog.latest[cacheLog.key].ttl
    /\ cacheLog.returned = [null |-> TRUE]

\* C25: when the most recent set on a key overwrote an earlier set, and no
\* delete or clear followed it, then before its own ttl has passed the entry
\* is in the cache with its value, a get returns that value, and no timeout
\* of an earlier set is pending.
ResetCancelsEarlierExpiry ==
    /\ \A t \in timeouts : t.key \in DOMAIN timers /\ timers[t.key] = t.id
    /\ \A k \in DOMAIN cacheLog.latest :
          LET set == cacheLog.latest[k]
          IN  (set.earlierDue # << >> /\ set.intact) =>
                 /\ dateNow < set.at + set.ttl =>
                       /\ k \in DOMAIN cache
                       /\ cache[k].value = set.value
                       /\ cacheGet(memoryCache, k, dateNow).returned
                             = [value |-> set.value]
                 /\ (cacheLog.op = "get" /\ cacheLog.key = k
                        /\ cacheLog.at < set.at + set.ttl) =>
                       cacheLog.returned = [value |-> set.value]

\* a get returned the value of the second set on its key at an instant when
\* the timeout of the first set was already due
ResetOutlivesEarlierTimerWitness ==
    /\ cacheLog.op = "get"
    /\ cacheLog.key \in DOMAIN cacheLog.latest
    /\ LET set == cacheLog.latest[cacheLog.key]
       IN  /\ set.earlierDue # << >>
           /\ set.intact
           /\ set.earlierDue[1] <= cacheLog.at
           /\ cacheLog.at < set.at + set.ttl
           /\ cacheLog.returned = [value |-> set.value]


(* Claims on withRetry *)

\* number of failed invocations of the call in progress
RetryFailures == Cardinality({ n \in 1..Len(retry.invocations) : ~ retry.invocations[n].ok })

\* what holds of a call of withRetry at every instant
RetryContract ==
    retry # None =>
       LET made == retry.invocations
       IN  /\ Len(made) <= retry.maxRetries + 1
           /\ \A n \in 1..Len(made) : n < Len(made) => ~ made[n].ok
           /\ \A j \in 1..Len(retry.waits) : retry.waits[j] = retry.delay * 2 ^ (j - 1)
           /\ Len(retry.waits) = IF retry.at = "done" /\ "thrown" \in DOMAIN retry.settled
                                 THEN RetryFailures - 1
                                 ELSE RetryFailures
           /\ retry.at = "done" =>
                 \/ /\ Len(made) > 0
                    /\ made[Len(made)].ok
                    /\ retry.settled = [returned |-> [value |-> made[Len(made)].value]]
                 \/ /\ Len(made) = retry.maxRetries + 1
                    /\ \A n \in 1..Len(made) : ~ made[n].ok
                    /\ retry.settled = [thrown |-> made[Len(made)].error]

\* C26: a call of withRetry invokes fn at most maxRetries + 1 times and never
\* after a success, returns the value of the successful invocation or, after
\* maxRetries + 1 failures, throws the error of the last one, waits
\* delay * 2^i after the i-th failure but not after the final one, and every
\* call that is made settles.
WithRetrySettles ==
    /\ [] RetryContract
    /\ (retry # None) ~> (retry # None /\ retry.at = "done")

\* a call with maxRetries >= 2 that threw after every invocation failed
RetryExhaustedWitness ==
    /\ retry # None
    /\ retry.maxRetries >= 2
    /\ retry.delay > 0
    /\ retry.at = "done"
    /\ "thrown" \in DOMAIN retry.settled
    /\ Len(retry.waits) = retry.maxRetries

=============================================================================
